---- MODULE Spec2Model ----
(***************************************************************************)
(* Firmware update pipeline of the ATC MiThermometer integration:          *)
(* custom_components/atc_mithermometer/{firmware,update,sensor,__init__,   *)
(* const}.py.                                                              *)
(*                                                                         *)
(* Every coroutine of the integration is an asyncio task.  A task runs     *)
(* without preemption from one await to the next, so one action of the     *)
(* model is the code between two consecutive awaits of one task.           *)
(***************************************************************************)
EXTENDS Integers, Sequences, FiniteSets, TLC

VARIABLES
    task,               \* task[p]: the frame of asyncio task p (see IdleTask)
    coordinator_data,   \* ATCUpdateCoordinator.data, the published snapshot
    sensor_data,        \* ATCFirmwareCoordinator.data
    install_progress,   \* ATCMiThermometerUpdate._install_progress
    hass                \* the config entries, hass.data[DOMAIN] and the services

vars == <<task, coordinator_data, sensor_data, install_progress, hass>>

----------------------------------------------------------------------------
(* Program constants (const.py).                                           *)

CHUNK_SIZE == 244
MIN_FIRMWARE_SIZE == 1024
MAX_FIRMWARE_SIZE == 524288
PROGRESS_DOWNLOAD_START == 10
PROGRESS_DOWNLOAD_COMPLETE == 30
PROGRESS_FLASH_RANGE == 60
PROGRESS_COMPLETE == 100

(* Bound of the model: the number of distinct firmware images (contents)   *)
(* the download server can serve for one length.                           *)
NumBodies == 2

----------------------------------------------------------------------------
(* Python values.  A str is a sequence of one-character strings; a bytes   *)
(* object is given by its length and its content (body); None and bool are *)
(* tagged so that values of different types can be compared.               *)

None == [t |-> "None"]
Str(s) == [t |-> "str", v |-> s]
Bytes(n, b) == [t |-> "bytes", len |-> n, body |-> b]
Bool(b) == [t |-> "bool", v |-> b]

\* Python truthiness (`if not x`).
Truthy(x) ==
    CASE x.t = "None" -> FALSE
      [] x.t = "str" -> x.v # <<>>
      [] x.t = "bytes" -> x.len > 0
      [] x.t = "bool" -> x.v
      [] OTHER -> TRUE

UpperLetters ==
    <<"A", "B", "C", "D", "E", "F", "G", "H", "I", "J", "K", "L", "M",
      "N", "O", "P", "Q", "R", "S", "T", "U", "V", "W", "X", "Y", "Z">>
LowerLetters ==
    <<"a", "b", "c", "d", "e", "f", "g", "h", "i", "j", "k", "l", "m",
      "n", "o", "p", "q", "r", "s", "t", "u", "v", "w", "x", "y", "z">>

\* str.lower()
str_lower(s) ==
    [i \in 1..Len(s) |->
        IF \E k \in 1..26 : UpperLetters[k] = s[i]
        THEN LowerLetters[CHOOSE k \in 1..26 : UpperLetters[k] = s[i]]
        ELSE s[i]]

\* str.upper()
str_upper(s) ==
    [i \in 1..Len(s) |->
        IF \E k \in 1..26 : LowerLetters[k] = s[i]
        THEN UpperLetters[CHOOSE k \in 1..26 : LowerLetters[k] = s[i]]
        ELSE s[i]]

\* str.startswith(prefix)
startswith(s, prefix) ==
    /\ Len(s) >= Len(prefix)
    /\ SubSeq(s, 1, Len(prefix)) = prefix

S_md5 == <<"m", "d", "5">>
S_sha1 == <<"s", "h", "a", "1">>
S_sha256 == <<"s", "h", "a", "2", "5", "6">>
S_sha512 == <<"s", "h", "a", "5", "1", "2">>
S_https == <<"h", "t", "t", "p", "s", ":", "/", "/">>

----------------------------------------------------------------------------
(* hashlib.  A digest is a lowercase hexadecimal string of the algorithm's *)
(* length.  The model's digest is collision free on the images of the      *)
(* model: its first six digits spell length * 16 + body.                   *)

HexDigits ==
    <<"0", "1", "2", "3", "4", "5", "6", "7",
      "8", "9", "a", "b", "c", "d", "e", "f">>

DigestSize(alg) ==
    CASE alg = S_md5 -> 32
      [] alg = S_sha1 -> 40
      [] alg = S_sha256 -> 64
      [] alg = S_sha512 -> 128

Pow16(k) == CASE k = 0 -> 1 [] k = 1 -> 16 [] k = 2 -> 256 [] k = 3 -> 4096
              [] k = 4 -> 65536 [] k = 5 -> 1048576

\* hashlib.<alg>(data).hexdigest()
hexdigest(alg, data) ==
    LET n == data.len * 16 + data.body
        digit(k) == (n \div Pow16(k)) % 16
    IN  [i \in 1..DigestSize(alg) |->
            HexDigits[((digit((i - 1) % 6) + ((i - 1) \div 6) * DigestSize(alg)
                        + ((i - 1) \div 6) * (i - 1)) % 16) + 1]]

----------------------------------------------------------------------------
(* FirmwareManager._validate_firmware_checksum                             *)

\* A variant that still verifies MD5 and SHA-1 checksums instead of
\* rejecting them.
_validate_firmware_checksum_weak(firmware_data, checksum, checksum_type) ==
    IF ~Truthy(checksum) \/ ~Truthy(checksum_type)
    THEN TRUE
    ELSE LET checksum_type_lower == str_lower(checksum_type.v) IN
         IF checksum_type_lower \in {S_md5, S_sha1, S_sha256, S_sha512}
         THEN str_lower(hexdigest(checksum_type_lower, firmware_data))
                  = str_lower(checksum.v)
         ELSE FALSE

\* A variant that compares the digest with the checksum as given, without
\* lowering the checksum.
_validate_firmware_checksum_cased(firmware_data, checksum, checksum_type) ==
    IF ~Truthy(checksum) \/ ~Truthy(checksum_type)
    THEN TRUE
    ELSE LET checksum_type_lower == str_lower(checksum_type.v) IN
         IF checksum_type_lower \in {S_sha256, S_sha512}
         THEN hexdigest(checksum_type_lower, firmware_data) = checksum.v
         ELSE FALSE

\* A variant that requires both the checksum and its type to be absent
\* before it skips verification.
_validate_firmware_checksum_both(firmware_data, checksum, checksum_type) ==
    IF ~Truthy(checksum) /\ ~Truthy(checksum_type)
    THEN TRUE
    ELSE IF ~Truthy(checksum) \/ ~Truthy(checksum_type)
    THEN FALSE
    ELSE LET checksum_type_lower == str_lower(checksum_type.v) IN
         IF checksum_type_lower \in {S_sha256, S_sha512}
         THEN str_lower(hexdigest(checksum_type_lower, firmware_data))
                  = str_lower(checksum.v)
         ELSE FALSE

_validate_firmware_checksum(firmware_data, checksum, checksum_type) ==
    IF ~Truthy(checksum) \/ ~Truthy(checksum_type)
    THEN TRUE
    ELSE LET checksum_type_lower == str_lower(checksum_type.v) IN
         IF checksum_type_lower \in {S_md5, S_sha1}
         THEN FALSE
         ELSE IF checksum_type_lower = S_sha256
         THEN str_lower(hexdigest(S_sha256, firmware_data))
                  = str_lower(checksum.v)
         ELSE IF checksum_type_lower = S_sha512
         THEN str_lower(hexdigest(S_sha512, firmware_data))
                  = str_lower(checksum.v)
         ELSE FALSE

----------------------------------------------------------------------------
(* Tasks.                                                                  *)

Procs ==
    {"validator", "downloader", "api", "install", "service",
     "sensor_poll", "update_poll", "flasher", "resolver", "parser", "reader",
     "comparator", "normalizer"}

\* The frame of a task that is not running.
IdleTask ==
    [pc |-> "idle",
     args |-> None,            \* arguments of a direct call
     release |-> None,         \* the FirmwareRelease being applied
     firmware_data |-> None,   \* what download_firmware returned
     current_version |-> None, \* what get_current_version returned
     valid |-> None,           \* what _validate_firmware_checksum returned
     ret |-> None,             \* the value the call returned
     raised |-> "",            \* the message of the exception it raised
     gatt_version |-> None,    \* what _read_version_from_gatt returned
     api_requests |-> 0,       \* release-feed requests issued in the call
     attempt |-> 0,            \* attempt of the resolver's retry loop
     delays |-> <<>>,          \* the delays the resolver has slept
     api_log |-> <<>>,         \* the outcomes of its release-feed requests
     http_requests |-> 0,      \* download requests issued in the call
     validate_calls |-> 0,     \* _validate_firmware_checksum calls
     flash_calls |-> 0,        \* flash_firmware calls
     ble |-> <<>>,             \* BLE operations attempted in the call
     conn |-> "closed",        \* the task's BleakClient
     response |-> None,        \* the HTTP response the download received
     flash_ret |-> None,       \* what flash_firmware returned
     flash_pending |-> None,   \* flash_firmware's result while the client closes
     install_progress |-> 0,   \* the entity's _install_progress as the task sets it
     last_milestone |-> 0,     \* last_milestone["value"] of the service's callback
     cursor |-> 0,             \* offset i of the chunk loop
     progress |-> <<>>]        \* progress_callback invocations

\* The number of config entries of the integration.
MaxEntries == 4
EntryIds == 1..MaxEntries

\* Home Assistant before any config entry of the integration exists.
NoEntries ==
    [entries |-> [e \in EntryIds |-> "absent"],  \* state of each config entry
     data |-> {},                                \* keys of hass.data[DOMAIN]
     services |-> {}]                            \* the services registered

Init ==
    /\ task = [p \in Procs |-> IdleTask]
    /\ coordinator_data = None
    /\ sensor_data = None
    /\ install_progress = 0
    /\ hass = NoEntries

\* Task p moves to frame g.  The install task's frame carries the entity's
\* _install_progress; a poll that ends without an exception publishes the
\* snapshot it returns as its coordinator's data.
Step(p, g) ==
    /\ task' = [task EXCEPT ![p] = g]
    /\ install_progress' =
          IF p = "install" THEN g.install_progress ELSE install_progress
    /\ sensor_data' =
          IF p = "sensor_poll" /\ g.pc = "done" /\ g.raised = ""
          THEN g.ret ELSE sensor_data
    /\ coordinator_data' =
          IF p = "update_poll" /\ g.pc = "done" /\ g.raised = ""
          THEN g.ret ELSE coordinator_data
    /\ UNCHANGED hass

\* The caller takes the result; the task object is gone.
TaskDone(p) ==
    /\ task[p].pc = "done"
    /\ task' = [task EXCEPT ![p] = IdleTask]
    /\ UNCHANGED <<coordinator_data, sensor_data, install_progress, hass>>

----------------------------------------------------------------------------
(* Direct calls of _validate_firmware_checksum on enumerated inputs.       *)

ValidatorLengths == {MIN_FIRMWARE_SIZE, 2000}
ValidatorData ==
    {Bytes(n, b) : n \in ValidatorLengths, b \in 0..(NumBodies - 1)}

ValidatorChecksums ==
    {None, Str(<<>>), Str(<<"z", "z">>)}
    \cup {Str(hexdigest(alg, d)) :
            alg \in {S_md5, S_sha1, S_sha256, S_sha512}, d \in ValidatorData}
    \cup {Str(str_upper(hexdigest(alg, d))) :
            alg \in {S_md5, S_sha256, S_sha512}, d \in ValidatorData}

ValidatorTypes ==
    {None, Str(<<>>),
     Str(S_md5), Str(str_upper(S_md5)), Str(<<"M", "d", "5">>),
     Str(S_sha1), Str(str_upper(S_sha1)),
     Str(S_sha256), Str(str_upper(S_sha256)), Str(<<"S", "h", "a", "2", "5", "6">>),
     Str(S_sha512), Str(str_upper(S_sha512)),
     Str(<<"s", "h", "a", "3", "8", "4">>),
     Str(<<"c", "r", "c", "3", "2">>),
     Str(<<" ", "s", "h", "a", "2", "5", "6">>),
     Str(<<"s", "h", "a", "-", "2", "5", "6">>)}

CallValidate(p) ==
    /\ p = "validator"
    /\ task[p].pc = "idle"
    /\ \E d \in ValidatorData, c \in ValidatorChecksums, ty \in ValidatorTypes :
          task' = [task EXCEPT ![p] =
                      [IdleTask EXCEPT
                          !.pc = "done",
                          !.args = [firmware_data |-> d, checksum |-> c,
                                    checksum_type |-> ty],
                          !.validate_calls = 1,
                          !.ret = Bool(_validate_firmware_checksum(d, c, ty))]]
    /\ UNCHANGED <<coordinator_data, sensor_data, install_progress, hass>>

NextValidate == \E p \in {"validator"} : CallValidate(p) \/ TaskDone(p)

SpecValidate == Init /\ [][NextValidate]_vars

\* _validate_firmware_checksum rejects every checksum type that is, in lower
\* case, neither sha256 nor sha512, md5 and sha1 with a correct digest
\* included.
WeakOrUnsupportedType(a) ==
    /\ Truthy(a.checksum)
    /\ Truthy(a.checksum_type)
    /\ str_lower(a.checksum_type.v) \notin {S_sha256, S_sha512}

\* C7: with a non-empty checksum, a checksum_type that names md5 or sha1 in
\* any letter case, or any other type that is not sha256 or sha512, makes the
\* validator return false, also when the checksum is the correct digest of
\* the data under the named algorithm.
C7_WeakChecksumRejected ==
    \A p \in {"validator"} :
        (task[p].pc = "done" /\ WeakOrUnsupportedType(task[p].args))
            => task[p].ret = Bool(FALSE)

\* A correct MD5 digest, type given in upper case, was rejected.
C7_Witness ==
    /\ task["validator"].pc = "done"
    /\ task["validator"].args.checksum_type = Str(str_upper(S_md5))
    /\ task["validator"].args.checksum
          = Str(hexdigest(S_md5, task["validator"].args.firmware_data))
    /\ task["validator"].ret = Bool(FALSE)

StrongType(a) ==
    /\ Truthy(a.checksum)
    /\ Truthy(a.checksum_type)
    /\ str_lower(a.checksum_type.v) \in {S_sha256, S_sha512}

\* C8: for sha256 and sha512 (type in any letter case) and a non-empty
\* checksum, the validator returns true exactly when the digest of the data
\* equals the checksum up to letter case; and the checksum it accepted for
\* the data is rejected for every other image.
C8_DigestDecides ==
    \A p \in {"validator"} :
        (task[p].pc = "done" /\ StrongType(task[p].args)) =>
            LET a == task[p].args
                digest == hexdigest(str_lower(a.checksum_type.v), a.firmware_data)
            IN  /\ (task[p].ret = Bool(TRUE)) <=> (str_lower(a.checksum.v) = digest)
                /\ task[p].ret \in {Bool(TRUE), Bool(FALSE)}
                /\ task[p].ret = Bool(TRUE) =>
                      \A d \in ValidatorData \ {a.firmware_data} :
                          ~_validate_firmware_checksum(d, a.checksum, a.checksum_type)

\* An upper-case SHA-256 digest of the data, type given in upper case, was
\* accepted.
C8_Witness ==
    /\ task["validator"].pc = "done"
    /\ task["validator"].args.checksum_type = Str(str_upper(S_sha256))
    /\ task["validator"].args.checksum
          = Str(str_upper(hexdigest(S_sha256, task["validator"].args.firmware_data)))
    /\ task["validator"].ret = Bool(TRUE)

----------------------------------------------------------------------------
(* FirmwareManager.download_firmware                                       *)

\* A variant that accepts every URL whose scheme starts with http.
download_firmware_refuses_http(download_url) ==
    ~startswith(download_url.v, <<"h", "t", "t", "p">>)

\* Lines 187-194: the URL is refused before any request.
download_firmware_refuses(download_url) ==
    ~startswith(download_url.v, S_https)

\* A variant whose size floor excludes the minimum itself.
download_firmware_response_floor(response) ==
    IF response.kind # "response" THEN None
    ELSE IF response.status # 200 THEN None
    ELSE IF response.read # "ok" THEN None
    ELSE IF response.body.len <= MIN_FIRMWARE_SIZE THEN None
    ELSE IF response.body.len > MAX_FIRMWARE_SIZE THEN None
    ELSE response.body

\* A variant that does not look at the status.
download_firmware_response_any_status(response) ==
    IF response.kind # "response" THEN None
    ELSE IF response.read # "ok" THEN None
    ELSE IF response.body.len < MIN_FIRMWARE_SIZE THEN None
    ELSE IF response.body.len > MAX_FIRMWARE_SIZE THEN None
    ELSE response.body

\* Lines 196-238: what download_firmware returns for the outcome of
\* session.get and response.read.
download_firmware_response(response) ==
    IF response.kind # "response" THEN None      \* TimeoutError, ClientError
    ELSE IF response.status # 200 THEN None
    ELSE IF response.read # "ok" THEN None       \* raised by response.read()
    ELSE IF response.body.len < MIN_FIRMWARE_SIZE THEN None
    ELSE IF response.body.len > MAX_FIRMWARE_SIZE THEN None
    ELSE response.body

\* The outcomes of one GET: an exception of the session, or a response with
\* a status and a payload whose read succeeds or raises.
HttpOutcomes(Statuses, Lengths) ==
    {[kind |-> "timeout"], [kind |-> "client_error"]}
    \cup {[kind |-> "response", status |-> s, body |-> Bytes(n, b), read |-> r] :
            s \in Statuses, n \in Lengths, b \in 0..(NumBodies - 1),
            r \in {"ok", "timeout", "client_error"}}

U_host == <<"h", "/", "f", ".", "b", "i", "n">>
DownloadUrls ==
    {Str(S_https \o U_host),
     Str(S_https),
     Str(<<"h", "t", "t", "p", ":", "/", "/">> \o U_host),
     Str(str_upper(S_https) \o U_host),
     Str(<<"f", "t", "p", ":", "/", "/">> \o U_host),
     Str(<<" ">> \o S_https \o U_host),
     Str(<<"h", "t", "t", "p", "s", ":", "/">> \o U_host),
     Str(<<>>)}

DownloadStatuses == {200, 206, 404, 500}
DownloadLengths ==
    {0, MIN_FIRMWARE_SIZE - 1, MIN_FIRMWARE_SIZE, MIN_FIRMWARE_SIZE + 1,
     MAX_FIRMWARE_SIZE - 1, MAX_FIRMWARE_SIZE, MAX_FIRMWARE_SIZE + 1}

\* A direct call of download_firmware, up to its await.
CallDownload(p) ==
    /\ p = "downloader"
    /\ task[p].pc = "idle"
    /\ \E url \in DownloadUrls :
          task' = [task EXCEPT ![p] =
                      IF download_firmware_refuses(url)
                      THEN [IdleTask EXCEPT !.pc = "done",
                                            !.args = [download_url |-> url],
                                            !.ret = None]
                      ELSE [IdleTask EXCEPT !.pc = "download",
                                            !.args = [download_url |-> url],
                                            !.http_requests = 1]]
    /\ UNCHANGED <<coordinator_data, sensor_data, install_progress, hass>>

\* The GET of a direct call ends.
DownloadReturns(p) ==
    /\ p = "downloader"
    /\ task[p].pc = "download"
    /\ \E response \in HttpOutcomes(DownloadStatuses, DownloadLengths) :
          task' = [task EXCEPT ![p] =
                      [@ EXCEPT !.pc = "done",
                                !.response = response,
                                !.ret = download_firmware_response(response)]]
    /\ UNCHANGED <<coordinator_data, sensor_data, install_progress, hass>>

NextDownload ==
    \E p \in {"downloader"} : CallDownload(p) \/ DownloadReturns(p) \/ TaskDone(p)

SpecDownload == Init /\ [][NextDownload]_vars

\* C6: download_firmware returns None for every URL that does not start with
\* https:// and issues no HTTP request for it.
C6_NonHttpsRefused ==
    \A p \in {"downloader"} :
        (task[p].pc \in {"download", "done"}
            /\ ~startswith(task[p].args.download_url.v, S_https))
        => /\ task[p].pc = "done"
           /\ task[p].ret = None
           /\ task[p].http_requests = 0

\* A plain-http URL was refused.
C6_Witness ==
    /\ task["downloader"].pc = "done"
    /\ task["downloader"].args.download_url
          = Str(<<"h", "t", "t", "p", ":", "/", "/">> \o U_host)
    /\ task["downloader"].ret = None
    /\ task["downloader"].http_requests = 0

\* C10: download_firmware returns the payload exactly when the URL is HTTPS,
\* the status is 200, the payload was read and its length n satisfies
\* MIN_FIRMWARE_SIZE <= n <= MAX_FIRMWARE_SIZE; otherwise it returns None.
C10_PayloadIffInBounds ==
    \A p \in {"downloader"} :
        task[p].pc = "done" =>
            LET r == task[p].response
                accepted ==
                    /\ startswith(task[p].args.download_url.v, S_https)
                    /\ r # None
                    /\ r.kind = "response"
                    /\ r.status = 200
                    /\ r.read = "ok"
                    /\ MIN_FIRMWARE_SIZE <= r.body.len
                    /\ r.body.len <= MAX_FIRMWARE_SIZE
            IN  /\ accepted => task[p].ret = r.body
                /\ ~accepted => task[p].ret = None

\* A payload of exactly MIN_FIRMWARE_SIZE bytes was returned.
C10_Witness ==
    /\ task["downloader"].pc = "done"
    /\ task["downloader"].ret.t = "bytes"
    /\ task["downloader"].ret.len = MIN_FIRMWARE_SIZE

\* C19: download_firmware issues at most one HTTP request per call; a
\* timeout, a transport error or a status other than 200 ends the call with
\* None after that one request.
C19_DownloadNoRetry ==
    LET f == task["downloader"] IN
    /\ f.http_requests <= 1
    /\ f.pc = "download" => f.http_requests = 1
    /\ (f.pc = "done" /\ f.response # None
        /\ (f.response.kind # "response" \/ f.response.status # 200))
       => /\ f.ret = None
          /\ f.raised = ""
          /\ f.http_requests = 1

C19_Witness ==
    /\ task["downloader"].pc = "done"
    /\ task["downloader"].response = [kind |-> "timeout"]
    /\ task["downloader"].ret = None
    /\ task["downloader"].http_requests = 1

----------------------------------------------------------------------------
(* FirmwareManager.flash_firmware and its two callers.                     *)

E_DOWNLOAD == "Failed to download firmware"
E_CHECKSUM == "Firmware checksum validation failed"
E_FLASH == "Firmware flash failed"

\* total_chunks of flash_firmware, line 276: ceil(n / CHUNK_SIZE).
NumChunks(n) == (n + CHUNK_SIZE - 1) \div CHUNK_SIZE

ConnectOutcomes == {"connected", "not_connected", "bleak_error", "timeout"}
BleOutcomes == {"ok", "bleak_error", "timeout"}

\* The tasks that run side by side against one device meet a narrower
\* environment than a task explored alone.
Concurrent == {"install", "service", "sensor_poll", "update_poll"}
ConnectOutcomesOf(p) ==
    IF p \in Concurrent THEN {"connected", "bleak_error"} ELSE ConnectOutcomes
BleOutcomesOf(p) ==
    IF p \in Concurrent THEN {"ok", "bleak_error"} ELSE BleOutcomes

\* A variant that reports a failed flash by its return value.
apply_firmware_update_flashed_bool(f, success) ==
    [f EXCEPT !.pc = "done", !.ret = Bool(success)]

\* apply_firmware_update, lines 622-632: flash_firmware has returned.
apply_firmware_update_flashed(f, success) ==
    IF ~success
    THEN [f EXCEPT !.pc = "done", !.raised = E_FLASH]
    ELSE [f EXCEPT !.pc = "done", !.ret = Bool(TRUE)]

\* A variant without the reset of the finally clause on a failed flash.
async_install_flashed_sticky(f, success) ==
    IF ~success
    THEN [f EXCEPT !.pc = "done", !.raised = E_FLASH]
    ELSE [f EXCEPT !.pc = "refresh", !.install_progress = PROGRESS_COMPLETE]

\* async_install, lines 284-306: flash_firmware has returned.  On failure
\* the error leaves through the finally clause; on success the task awaits
\* the coordinator's refresh.
async_install_flashed(f, success) ==
    IF ~success
    THEN [f EXCEPT !.pc = "done", !.raised = E_FLASH, !.install_progress = 0]
    ELSE [f EXCEPT !.pc = "refresh", !.install_progress = PROGRESS_COMPLETE]

\* flash_firmware returns to the caller that task p runs.
flash_firmware_returns(p, f, success) ==
    LET g == [f EXCEPT !.flash_ret = Bool(success), !.flash_pending = None] IN
    CASE p = "install" -> async_install_flashed(g, success)
      [] p = "flasher" -> [g EXCEPT !.pc = "done", !.ret = Bool(success)]
      [] OTHER -> apply_firmware_update_flashed(g, success)

\* flash_firmware, lines 254-265: device resolution, up to the connect.
flash_firmware_call(p, f, found) ==
    LET g == [f EXCEPT !.flash_calls = @ + 1,
                       !.ble = Append(@, [op |-> "resolve", ok |-> found])]
    IN  IF ~found
        THEN flash_firmware_returns(p, g, FALSE)
        ELSE [g EXCEPT !.pc = "flash_connect"]

\* A variant that does not look at client.is_connected.
flash_firmware_connected_trusting(p, f, outcome) ==
    LET g == [f EXCEPT !.ble = Append(@, [op |-> "connect", result |-> outcome])]
    IN  CASE outcome \in {"connected", "not_connected"} ->
                [g EXCEPT !.conn = outcome, !.pc = "flash_start"]
          [] OTHER -> flash_firmware_returns(p, g, FALSE)

\* flash_firmware, lines 265-273: BleakClient.__aenter__ has ended; a
\* connected client goes on to _start_ota_mode's write.
flash_firmware_connected(p, f, outcome) ==
    LET g == [f EXCEPT !.ble = Append(@, [op |-> "connect", result |-> outcome])]
    IN  CASE outcome = "connected" ->
                [g EXCEPT !.conn = "connected", !.pc = "flash_start"]
          [] outcome = "not_connected" ->
                [g EXCEPT !.conn = "not_connected", !.pc = "flash_disconnect",
                          !.flash_pending = Bool(FALSE)]
          [] OTHER -> flash_firmware_returns(p, g, FALSE)

\* A variant in which a failed start command ends the flash.
flash_firmware_started_fatal(p, f, outcome) ==
    LET g == [f EXCEPT !.ble = Append(@, [op |-> "write", char |-> "OTA_CONTROL",
                                          data |-> 1, result |-> outcome])]
    IN  IF outcome # "ok"
        THEN [g EXCEPT !.pc = "flash_disconnect", !.flash_pending = Bool(FALSE)]
        ELSE IF f.firmware_data.len > 0
        THEN [g EXCEPT !.pc = "flash_chunk", !.cursor = 0]
        ELSE [g EXCEPT !.pc = "flash_finalize"]

\* A variant whose chunk loop goes on from the offset the frame holds.
flash_firmware_started_resuming(p, f, outcome) ==
    LET g == [f EXCEPT !.ble = Append(@, [op |-> "write", char |-> "OTA_CONTROL",
                                          data |-> 1, result |-> outcome])]
    IN  IF f.cursor < f.firmware_data.len
        THEN [g EXCEPT !.pc = "flash_chunk"]
        ELSE [g EXCEPT !.pc = "flash_finalize"]

\* _start_ota_mode, lines 306-317, and the entry of the chunk loop: the
\* outcome of the start command is logged and ignored.
flash_firmware_started(p, f, outcome) ==
    LET g == [f EXCEPT !.ble = Append(@, [op |-> "write", char |-> "OTA_CONTROL",
                                          data |-> 1, result |-> outcome])]
    IN  IF f.firmware_data.len > 0
        THEN [g EXCEPT !.pc = "flash_chunk", !.cursor = 0]
        ELSE [g EXCEPT !.pc = "flash_finalize"]

\* A variant that reports the index of the chunk, counted from zero.
progress_callback_zero_based(p, f, current, total, raises) ==
    IF f.args # None /\ f.args.progress_callback = "given"
    THEN [f EXCEPT !.progress = Append(@, [current |-> current - 1, total |-> total,
                                           raised |-> FALSE])]
    ELSE f

\* The progress callback flash_firmware was given by task p: the entity's
\* (update.py 274-282), the service's milestone logger behind
\* safe_progress_callback (__init__.py 256-268, firmware.py 606-620), or a
\* direct caller's: handed to flash_firmware as it is (lines 284-285), or,
\* for apply_firmware_update, one that may raise, behind
\* safe_progress_callback.
progress_callback(p, f, current, total, raises) ==
    CASE p = "install" ->
            [f EXCEPT !.progress = Append(@, [current |-> current, total |-> total,
                                              raised |-> FALSE]),
                      !.install_progress =
                          PROGRESS_DOWNLOAD_COMPLETE
                              + ((current * PROGRESS_FLASH_RANGE) \div total)]
      [] p = "service" ->
            IF total > 0
            THEN LET current_milestone == (((current * 100) \div total) \div 25) * 25 IN
                 [f EXCEPT !.progress = Append(@, [current |-> current, total |-> total,
                                                   raised |-> FALSE]),
                           !.last_milestone =
                               IF total > 0 /\ current > 0
                                  /\ current_milestone > @ /\ current_milestone <= 100
                               THEN current_milestone ELSE @]
            ELSE f
      [] p = "flasher" ->
            IF f.args.progress_callback = "given"
            THEN [f EXCEPT !.progress = Append(@, [current |-> current, total |-> total,
                                                   raised |-> FALSE])]
            ELSE f
      [] OTHER ->
            IF f.args.progress_callback = "given" /\ total > 0
            THEN [f EXCEPT !.progress = Append(@, [current |-> current, total |-> total,
                                                   raised |-> raises])]
            ELSE f

\* A variant whose chunks all have CHUNK_SIZE bytes.
flash_firmware_chunk_padded(p, f, outcome, raises) ==
    LET i == f.cursor
        n == f.firmware_data.len
        g == [f EXCEPT !.ble = Append(@, [op |-> "write", char |-> "OTA_DATA",
                                          body |-> f.firmware_data.body,
                                          off |-> i, len |-> CHUNK_SIZE,
                                          result |-> outcome])]
    IN  IF outcome # "ok"
        THEN [g EXCEPT !.pc = "flash_disconnect", !.flash_pending = Bool(FALSE)]
        ELSE [progress_callback(p, g, (i \div CHUNK_SIZE) + 1, NumChunks(n), raises)
                 EXCEPT !.cursor = i + CHUNK_SIZE,
                        !.pc = IF i + CHUNK_SIZE < n THEN "flash_chunk"
                               ELSE "flash_finalize"]

\* A variant that goes on after a failed chunk write.
flash_firmware_chunk_resilient(p, f, outcome, raises) ==
    LET i == f.cursor
        n == f.firmware_data.len
        size == IF i + CHUNK_SIZE <= n THEN CHUNK_SIZE ELSE n - i
        g == [f EXCEPT !.ble = Append(@, [op |-> "write", char |-> "OTA_DATA",
                                          body |-> f.firmware_data.body,
                                          off |-> i, len |-> size,
                                          result |-> outcome])]
    IN  [progress_callback(p, g, (i \div CHUNK_SIZE) + 1, NumChunks(n), raises)
            EXCEPT !.cursor = i + CHUNK_SIZE,
                   !.pc = IF i + CHUNK_SIZE < n THEN "flash_chunk"
                          ELSE "flash_finalize"]

\* A variant that lets an exception of the progress callback end the flash.
flash_firmware_chunk_unsafe(p, f, outcome, raises) ==
    LET i == f.cursor
        n == f.firmware_data.len
        size == IF i + CHUNK_SIZE <= n THEN CHUNK_SIZE ELSE n - i
        g == [f EXCEPT !.ble = Append(@, [op |-> "write", char |-> "OTA_DATA",
                                          body |-> f.firmware_data.body,
                                          off |-> i, len |-> size,
                                          result |-> outcome])]
    IN  IF outcome # "ok"
        THEN [g EXCEPT !.pc = "flash_disconnect", !.flash_pending = Bool(FALSE)]
        ELSE IF raises
        THEN [progress_callback(p, g, (i \div CHUNK_SIZE) + 1, NumChunks(n), raises)
                 EXCEPT !.pc = "flash_disconnect", !.flash_pending = Bool(FALSE)]
        ELSE [progress_callback(p, g, (i \div CHUNK_SIZE) + 1, NumChunks(n), raises)
                 EXCEPT !.cursor = i + CHUNK_SIZE,
                        !.pc = IF i + CHUNK_SIZE < n THEN "flash_chunk"
                               ELSE "flash_finalize"]

\* A variant that sends the finalize command after a failed chunk write.
flash_firmware_chunk_finalizing(p, f, outcome, raises) ==
    LET i == f.cursor
        n == f.firmware_data.len
        size == IF i + CHUNK_SIZE <= n THEN CHUNK_SIZE ELSE n - i
        g == [f EXCEPT !.ble = Append(@, [op |-> "write", char |-> "OTA_DATA",
                                          body |-> f.firmware_data.body,
                                          off |-> i, len |-> size,
                                          result |-> outcome])]
    IN  IF outcome # "ok"
        THEN [g EXCEPT !.pc = "flash_finalize"]
        ELSE [progress_callback(p, g, (i \div CHUNK_SIZE) + 1, NumChunks(n), raises)
                 EXCEPT !.cursor = i + CHUNK_SIZE,
                        !.pc = IF i + CHUNK_SIZE < n THEN "flash_chunk"
                               ELSE "flash_finalize"]

\* flash_firmware, lines 278-288: one write of the chunk loop has ended.
flash_firmware_chunk(p, f, outcome, raises) ==
    LET i == f.cursor
        n == f.firmware_data.len
        size == IF i + CHUNK_SIZE <= n THEN CHUNK_SIZE ELSE n - i
        chunk_num == i \div CHUNK_SIZE
        total_chunks == (n + CHUNK_SIZE - 1) \div CHUNK_SIZE
        g == [f EXCEPT !.ble = Append(@, [op |-> "write", char |-> "OTA_DATA",
                                          body |-> f.firmware_data.body,
                                          off |-> i, len |-> size,
                                          result |-> outcome])]
    IN  IF outcome # "ok"
        THEN [g EXCEPT !.pc = "flash_disconnect", !.flash_pending = Bool(FALSE)]
        ELSE [progress_callback(p, g, chunk_num + 1, total_chunks, raises) EXCEPT
                  !.cursor = i + CHUNK_SIZE,
                  !.pc = IF i + CHUNK_SIZE < n THEN "flash_chunk" ELSE "flash_finalize"]

\* _finalize_ota, lines 319-328, and lines 291-294: the outcome of the
\* finalize command is logged and ignored.
flash_firmware_finalized(p, f, outcome) ==
    [f EXCEPT !.ble = Append(@, [op |-> "write", char |-> "OTA_CONTROL",
                                 data |-> 2, result |-> outcome]),
              !.pc = "flash_disconnect",
              !.flash_pending = Bool(TRUE)]

\* BleakClient.__aexit__ has ended: lines 294-304.
flash_firmware_disconnected(p, f) ==
    flash_firmware_returns(
        p,
        [f EXCEPT !.conn = "closed", !.ble = Append(@, [op |-> "disconnect"])],
        f.flash_pending.v)

\* A variant that logs a rejected checksum and flashes all the same.
apply_firmware_update_downloaded_lenient(p, f, firmware_data, found) ==
    LET g == [f EXCEPT !.firmware_data = firmware_data] IN
    IF ~Truthy(firmware_data)
    THEN [g EXCEPT !.pc = "done", !.raised = E_DOWNLOAD]
    ELSE flash_firmware_call(
             p,
             [g EXCEPT !.validate_calls = @ + 1,
                       !.valid = Bool(_validate_firmware_checksum(
                                     firmware_data, f.release.checksum,
                                     f.release.checksum_type))],
             found)

\* apply_firmware_update, lines 590-622: download_firmware has returned.
apply_firmware_update_downloaded(p, f, firmware_data, found) ==
    LET g == [f EXCEPT !.firmware_data = firmware_data] IN
    IF ~Truthy(firmware_data)
    THEN [g EXCEPT !.pc = "done", !.raised = E_DOWNLOAD]
    ELSE LET ok == _validate_firmware_checksum(
                       firmware_data, f.release.checksum, f.release.checksum_type)
             h == [g EXCEPT !.validate_calls = @ + 1, !.valid = Bool(ok)]
         IN  IF ~ok
             THEN [h EXCEPT !.pc = "done", !.raised = E_CHECKSUM]
             ELSE flash_firmware_call(p, h, found)

\* apply_firmware_update, lines 583-590, with download_firmware up to its
\* await.
apply_firmware_update_call(p, f, release) ==
    LET g == [f EXCEPT !.release = release] IN
    IF download_firmware_refuses(release.download_url)
    THEN apply_firmware_update_downloaded(p, g, None, FALSE)
    ELSE [g EXCEPT !.pc = "download", !.http_requests = @ + 1]

FirmwareRelease(version, download_url, checksum, checksum_type) ==
    [version |-> version, download_url |-> download_url,
     checksum |-> checksum, checksum_type |-> checksum_type]

\* What the download server serves to the update paths.
ApplyStatuses == {200, 404}
ApplyLengths == {MIN_FIRMWARE_SIZE - 1, MIN_FIRMWARE_SIZE, 1100}
ApplyLengthsOf(p) ==
    IF p \in Concurrent THEN {MIN_FIRMWARE_SIZE} ELSE ApplyLengths
Image0 == Bytes(MIN_FIRMWARE_SIZE, 0)
V_tag == <<"v", "4", ".", "5">>

\* The releases a direct caller of apply_firmware_update passes.
ApiChecksums ==
    {<<None, None>>,
     <<None, Str(S_sha256)>>,
     <<None, Str(S_md5)>>,
     <<Str(<<>>), Str(S_sha256)>>,
     <<Str(hexdigest(S_sha512, Image0)), None>>,
     <<Str(hexdigest(S_md5, Image0)), Str(<<>>)>>,
     <<Str(hexdigest(S_sha256, Image0)), Str(S_sha256)>>,
     <<Str(str_upper(hexdigest(S_sha256, Image0))), Str(str_upper(S_sha256))>>,
     <<Str(hexdigest(S_sha512, Image0)), Str(S_sha512)>>,
     <<Str(hexdigest(S_md5, Image0)), Str(S_md5)>>,
     <<Str(hexdigest(S_sha1, Image0)), Str(str_upper(S_sha1))>>,
     <<Str(hexdigest(S_sha256, Image0)), Str(<<"c", "r", "c", "3", "2">>)>>}

ApiReleases ==
    {FirmwareRelease(Str(V_tag), url, c[1], c[2]) :
        url \in {Str(S_https \o U_host),
                 Str(<<"h", "t", "t", "p", ":", "/", "/">> \o U_host)},
        c \in ApiChecksums}

\* A direct call of apply_firmware_update, with or without a callback.
CallApply(p) ==
    /\ p = "api"
    /\ task[p].pc = "idle"
    /\ \E release \in ApiReleases, cb \in {"none", "given"} :
          Step(p, apply_firmware_update_call(
                      p,
                      [IdleTask EXCEPT !.args = [release |-> release,
                                                 progress_callback |-> cb]],
                      release))

\* The GET of apply_firmware_update's download ends.
ApplyDownloaded(p) ==
    /\ p \in {"api", "service"}
    /\ task[p].pc = "download"
    /\ \E response \in HttpOutcomes(ApplyStatuses, ApplyLengthsOf(p)), found \in BOOLEAN :
          Step(p, apply_firmware_update_downloaded(
                      p, task[p],
                      download_firmware_response(response), found))

FlashConnected(p) ==
    /\ task[p].pc = "flash_connect"
    /\ \E outcome \in ConnectOutcomesOf(p) :
          Step(p, flash_firmware_connected(p, task[p], outcome))

FlashStarted(p) ==
    /\ task[p].pc = "flash_start"
    /\ \E outcome \in BleOutcomesOf(p) :
          Step(p, flash_firmware_started(p, task[p], outcome))

FlashChunk(p) ==
    /\ task[p].pc = "flash_chunk"
    /\ \E outcome \in BleOutcomesOf(p), raises \in BOOLEAN :
          Step(p, flash_firmware_chunk(p, task[p], outcome, raises))

FlashFinalized(p) ==
    /\ task[p].pc = "flash_finalize"
    /\ \E outcome \in BleOutcomesOf(p) :
          Step(p, flash_firmware_finalized(p, task[p], outcome))

FlashDisconnected(p) ==
    /\ task[p].pc = "flash_disconnect"
    /\ Step(p, flash_firmware_disconnected(p, task[p]))

NextApply ==
    \E p \in {"api"} :
        \/ CallApply(p)
        \/ ApplyDownloaded(p)
        \/ FlashConnected(p)
        \/ FlashStarted(p)
        \/ FlashChunk(p)
        \/ FlashFinalized(p)
        \/ FlashDisconnected(p)
        \/ TaskDone(p)

SpecApply == Init /\ [][NextApply]_vars

\* C2: in apply_firmware_update a failed download raises before validation
\* and before any BLE activity, and a rejection by the validator raises
\* with no device resolution, connection or write attempted in the call.
C2_FailureBeforeBle ==
    \A p \in {"api"} :
        LET f == task[p] IN
        /\ (f.pc \notin {"idle", "download"} /\ ~Truthy(f.firmware_data)) =>
              /\ f.pc = "done"
              /\ f.raised = E_DOWNLOAD
              /\ f.validate_calls = 0
              /\ f.flash_calls = 0
              /\ f.ble = <<>>
              /\ f.conn = "closed"
        /\ f.valid = Bool(FALSE) =>
              /\ f.pc = "done"
              /\ f.raised = E_CHECKSUM
              /\ f.flash_calls = 0
              /\ f.ble = <<>>
              /\ f.conn = "closed"

\* A SHA-256 checksum that does not match the downloaded image made the call
\* raise.
C2_Witness ==
    /\ task["api"].pc = "done"
    /\ task["api"].release.checksum_type = Str(S_sha256)
    /\ Truthy(task["api"].firmware_data)
    /\ task["api"].valid = Bool(FALSE)
    /\ task["api"].raised = E_CHECKSUM

ApplyImages ==
    {Bytes(n, b) : n \in ApplyLengths, b \in 0..(NumBodies - 1)}

\* C9: when the release's checksum or its checksum_type is absent (None or
\* empty), one of them alone included, the validator accepts every image and
\* apply_firmware_update does not fail on validation.
C9_AbsentChecksumAccepted ==
    \A p \in {"api"} :
        LET f == task[p] IN
        (/\ f.release # None
         /\ ~Truthy(f.release.checksum) \/ ~Truthy(f.release.checksum_type)) =>
            /\ f.valid # Bool(FALSE)
            /\ f.raised # E_CHECKSUM
            /\ Truthy(f.firmware_data) => f.valid = Bool(TRUE)
            /\ \A d \in ApplyImages :
                  _validate_firmware_checksum(
                      d, f.release.checksum, f.release.checksum_type)

\* A release with a checksum but no type was applied to an image the
\* checksum does not match, and the call returned true.
C9_Witness ==
    /\ task["api"].pc = "done"
    /\ task["api"].release.checksum = Str(hexdigest(S_sha512, Image0))
    /\ task["api"].release.checksum_type = None
    /\ task["api"].firmware_data # Image0
    /\ task["api"].ret = Bool(TRUE)

----------------------------------------------------------------------------
(* _versions_equal (__init__.py 41-78).                                    *)

Digits == <<"0", "1", "2", "3", "4", "5", "6", "7", "8", "9">>
IsDigit(c) == \E k \in 1..10 : Digits[k] = c
DigitValue(c) == (CHOOSE k \in 1..10 : Digits[k] = c) - 1

\* str.lstrip("v"): every leading lower-case v is removed.
RECURSIVE lstrip_v(_)
lstrip_v(s) == IF s # <<>> /\ Head(s) = "v" THEN lstrip_v(Tail(s)) ELSE s

InvalidVersion == <<-1>>

\* The release segment of a version: decimal numbers separated by dots.
RECURSIVE parse_release(_, _, _)
parse_release(s, cur, out) ==
    IF s = <<>>
    THEN IF cur < 0 THEN InvalidVersion ELSE Append(out, cur)
    ELSE IF IsDigit(Head(s))
    THEN parse_release(Tail(s),
                       (IF cur < 0 THEN 0 ELSE cur) * 10 + DigitValue(Head(s)), out)
    ELSE IF Head(s) = "." /\ cur >= 0
    THEN parse_release(Tail(s), -1, Append(out, cur))
    ELSE InvalidVersion

RECURSIVE rstrip_zeros(_)
rstrip_zeros(r) ==
    IF Len(r) > 1 /\ r[Len(r)] = 0 THEN rstrip_zeros(SubSeq(r, 1, Len(r) - 1)) ELSE r

\* packaging.version.parse on versions written with digits, dots and an
\* optional v or V in front: the release numbers, compared without their
\* trailing zeros; InvalidVersion for any other string.
version_parse(s) ==
    LET t == IF s # <<>> /\ Head(s) \in {"v", "V"} THEN Tail(s) ELSE s
        r == parse_release(t, -1, <<>>)
    IN  IF r = InvalidVersion THEN InvalidVersion ELSE rstrip_zeros(r)

\* A variant that compares the normalized texts only.
_versions_equal_textual(version1, version2) ==
    lstrip_v(version1.v) = lstrip_v(version2.v)

\* _versions_equal, lines 58-78.
_versions_equal(version1, version2) ==
    LET v1_normalized == lstrip_v(version1.v)
        v2_normalized == lstrip_v(version2.v)
    IN  IF version_parse(v1_normalized) = InvalidVersion
           \/ version_parse(v2_normalized) = InvalidVersion
        THEN v1_normalized = v2_normalized
        ELSE version_parse(v1_normalized) = version_parse(v2_normalized)

----------------------------------------------------------------------------
(* The apply_firmware service (__init__.py 157-271), the entity's install   *)
(* (update.py 241-306), the two coordinators' polls and                     *)
(* FirmwareManager.get_current_version (firmware.py 710-807).               *)

E_NO_RELEASE == "No firmware release available"
E_NO_DEVICE == "Device not found"
E_NO_MAC == "No Bluetooth MAC address found"
E_NO_ENTRY == "No ATC MiThermometer config entry found"
E_SOURCE == "Invalid firmware source"
E_NOT_FOUND == "Firmware version not found"
E_UPDATE_FAILED == "UpdateFailed"

FIRMWARE_SOURCES == {"pvvx", "atc1441"}

\* The versions a device reports, and the tag the service is asked for.
V_same == <<"4", ".", "5">>
V_other == <<"4", ".", "6">>
DeviceVersions == {None, Str(V_same), Str(V_other)}

\* The releases the resolver builds from the feed: the checksum pair is
\* what _parse_checksum_from_release extracts, absent or a lower-case
\* SHA-256 digest.
ResolverReleases ==
    {FirmwareRelease(Str(V_tag), Str(S_https \o U_host), None, None),
     FirmwareRelease(Str(V_tag), Str(S_https \o U_host),
                     Str(hexdigest(S_sha256, Image0)), Str(S_sha256))}

\* The device registry's entry of a device: its connections, each a pair
\* of a connection type and an identifier, and the ids of its config
\* entries, each given by what hass.config_entries.async_get_entry returns
\* for it: None or an entry with its domain and its configured source.
\* const.py DOMAIN (a reserved word here).
INTEGRATION_DOMAIN == "atc_mithermometer"
CONNECTION_BLUETOOTH == "bluetooth"
Device(connections, config_entries) ==
    [t |-> "device", connections |-> connections,
     config_entries |-> config_entries]
ConfigEntry(domain, firmware_source) ==
    [t |-> "entry", domain |-> domain, firmware_source |-> firmware_source]

\* __init__.py 183-187: the identifier of the first Bluetooth connection.
RECURSIVE bluetooth_address(_, _)
bluetooth_address(connections, k) ==
    IF k > Len(connections) THEN None
    ELSE IF connections[k][1] = CONNECTION_BLUETOOTH THEN Str(connections[k][2])
    ELSE bluetooth_address(connections, k + 1)

\* __init__.py 195-200: the first config entry of the integration's domain.
RECURSIVE find_config_entry(_, _)
find_config_entry(config_entries, k) ==
    IF k > Len(config_entries) THEN None
    ELSE IF config_entries[k] # None /\ config_entries[k].domain = INTEGRATION_DOMAIN
    THEN config_entries[k]
    ELSE find_config_entry(config_entries, k + 1)

\* A variant that compares the two version texts as they are.
_async_apply_firmware_versioned_textual(f) ==
    LET firmware_source ==
            find_config_entry(f.args.device.config_entries, 1).firmware_source
    IN  IF Truthy(f.current_version) /\ f.current_version = f.args.desired_version
        THEN [f EXCEPT !.pc = "done"]
        ELSE IF firmware_source \notin FIRMWARE_SOURCES
        THEN [f EXCEPT !.pc = "done", !.raised = E_SOURCE]
        ELSE [f EXCEPT !.pc = "fetch_release", !.api_requests = @ + 1]

\* A variant that looks the release up for any configured source.
_async_apply_firmware_versioned_any_source(f) ==
    IF Truthy(f.current_version)
       /\ _versions_equal(f.current_version, f.args.desired_version)
    THEN [f EXCEPT !.pc = "done"]
    ELSE [f EXCEPT !.pc = "fetch_release", !.api_requests = @ + 1]

\* _async_apply_firmware, lines 211-238: the current version is known or
\* not; up to the await of get_release_by_version.
_async_apply_firmware_versioned(f) ==
    LET firmware_source ==
            find_config_entry(f.args.device.config_entries, 1).firmware_source
    IN  IF Truthy(f.current_version)
           /\ _versions_equal(f.current_version, f.args.desired_version)
        THEN [f EXCEPT !.pc = "done"]
        ELSE IF firmware_source \notin FIRMWARE_SOURCES
        THEN [f EXCEPT !.pc = "done", !.raised = E_SOURCE]
        ELSE [f EXCEPT !.pc = "fetch_release", !.api_requests = @ + 1]

----------------------------------------------------------------------------
(* FirmwareManager._read_version_from_gatt (firmware.py 634-708) and the    *)
(* manufacturer-data fallback of get_current_version (firmware.py 775-798), *)
(* as functions of what the device and the advertisement cache deliver.     *)

\* The constants firmware.py imports from const.py for the version reader
\* (firmware.py 28-36).
MAX_VERSION_LENGTH == 20
MIN_MANUFACTURER_DATA_LEN == 6
VERSION_BYTE_MAJOR == 4
VERSION_BYTE_MINOR == 5
VERSION_PREFIX_CHARS == {"v", "V"}

\* A bytes object given by its bytes, each in 0..255.
BytesOf(b) == Bytes(Len(b), b)

\* The characters of the texts below by their code points; U+00A0, the
\* no-break space, is the one used character outside ASCII.
NBSP == "U+00A0"
Chr(n) ==
    CASE n = 9 -> "\t"
      [] n = 10 -> "\n"
      [] n = 32 -> " "
      [] n = 46 -> "."
      [] n \in 48..57 -> Digits[n - 47]
      [] n = 86 -> "V"
      [] n = 118 -> "v"
      [] n = 120 -> "x"
      [] n = 160 -> NBSP
Ord(c) == CHOOSE n \in {9, 10, 32, 46, 86, 118, 120, 160} \cup (48..57) : Chr(n) = c

DecodeError == <<"UnicodeDecodeError">>

\* bytes.decode("utf-8"), strict: a byte below 0x80 is its character, a lead
\* byte 0xC2..0xDF takes one continuation byte 0x80..0xBF; 0x80..0xC1 and
\* 0xF5..0xFF start no character and a lead byte without its continuation
\* is an error. (Lead bytes 0xE0..0xF4 do not occur in the readings.)
RECURSIVE decode_utf8(_)
decode_utf8(b) ==
    IF b = <<>> THEN <<>>
    ELSE IF Head(b) < 128
    THEN LET rest == decode_utf8(Tail(b)) IN
         IF rest = DecodeError THEN DecodeError ELSE <<Chr(Head(b))>> \o rest
    ELSE IF Head(b) \in 194..223 /\ Len(b) >= 2 /\ b[2] \in 128..191
    THEN LET rest == decode_utf8(Tail(Tail(b))) IN
         IF rest = DecodeError THEN DecodeError
         ELSE <<Chr((Head(b) - 192) * 64 + (b[2] - 128))>> \o rest
    ELSE DecodeError

\* str.strip(): the characters with str.isspace() are removed at both ends.
IsSpace(c) == c \in {" ", "\t", "\n", NBSP}
RECURSIVE lstrip(_)
lstrip(s) == IF s # <<>> /\ IsSpace(Head(s)) THEN lstrip(Tail(s)) ELSE s
RECURSIVE rstrip(_)
rstrip(s) ==
    IF s # <<>> /\ IsSpace(s[Len(s)]) THEN rstrip(SubSeq(s, 1, Len(s) - 1)) ELSE s
strip(s) == rstrip(lstrip(s))

\* The index after the digits that start at index i.
RECURSIVE skip_digits(_, _)
skip_digits(s, i) ==
    IF i <= Len(s) /\ IsDigit(s[i]) THEN skip_digits(s, i + 1) ELSE i

\* re.match(VERSION_VALIDATION_PATTERN, s): major.minor with an optional
\* .patch, each a run of digits, and nothing after it.
VERSION_VALIDATION_PATTERN(s) ==
    LET a == skip_digits(s, 1)
        b == skip_digits(s, a + 1)
        c == skip_digits(s, b + 1)
    IN  /\ a > 1
        /\ a <= Len(s) /\ s[a] = "."
        /\ b > a + 1
        /\ \/ b = Len(s) + 1
           \/ /\ b <= Len(s) /\ s[b] = "."
              /\ c > b + 1
              /\ c = Len(s) + 1

\* A variant that removes every leading prefix character.
_read_version_from_gatt_validated_all_prefixes(software_revision) ==
    IF ~Truthy(software_revision) THEN None
    ELSE LET decoded == decode_utf8(software_revision.body) IN
         IF decoded = DecodeError THEN None
         ELSE LET version_str == strip(decoded)
                  RECURSIVE unprefixed(_)
                  unprefixed(s) ==
                      IF s # <<>> /\ Head(s) \in VERSION_PREFIX_CHARS
                      THEN unprefixed(Tail(s)) ELSE s
              IN  IF version_str = <<>> THEN None
                  ELSE IF Len(version_str) > MAX_VERSION_LENGTH THEN None
                  ELSE IF ~VERSION_VALIDATION_PATTERN(unprefixed(version_str))
                  THEN None
                  ELSE Str(unprefixed(version_str))

\* A variant that lets the decode error leave the helper.
_read_version_from_gatt_validated_raising(software_revision) ==
    IF ~Truthy(software_revision) THEN None
    ELSE LET decoded == decode_utf8(software_revision.body) IN
         IF decoded = DecodeError THEN [t |-> "raise", class |-> "UnicodeDecodeError"]
         ELSE LET version_str == strip(decoded)
                  unprefixed ==
                      IF version_str # <<>> /\ version_str[1] \in VERSION_PREFIX_CHARS
                      THEN Tail(version_str) ELSE version_str
              IN  IF version_str = <<>> THEN None
                  ELSE IF Len(version_str) > MAX_VERSION_LENGTH THEN None
                  ELSE IF ~VERSION_VALIDATION_PATTERN(unprefixed) THEN None
                  ELSE Str(unprefixed)

\* _read_version_from_gatt, lines 655-708: what it returns for the value
\* read_gatt_char delivered.
_read_version_from_gatt_validated(software_revision) ==
    IF ~Truthy(software_revision) THEN None
    ELSE LET decoded == decode_utf8(software_revision.body) IN
         IF decoded = DecodeError THEN None
         ELSE LET version_str == strip(decoded)
                  unprefixed ==
                      IF version_str # <<>> /\ version_str[1] \in VERSION_PREFIX_CHARS
                      THEN Tail(version_str) ELSE version_str
              IN  IF version_str = <<>> THEN None
                  ELSE IF Len(version_str) > MAX_VERSION_LENGTH THEN None
                  ELSE IF ~VERSION_VALIDATION_PATTERN(unprefixed) THEN None
                  ELSE Str(unprefixed)

\* str(n) of a non-negative integer.
RECURSIVE str_int(_)
str_int(n) ==
    IF n < 10 THEN <<Digits[n + 1]>>
    ELSE str_int(n \div 10) \o <<Digits[(n % 10) + 1]>>

\* What bluetooth.async_last_service_info returns: None or a service info
\* whose manufacturer_data holds the blobs in the dict's order.
ServiceInfo(blobs) == [t |-> "service_info", manufacturer_data |-> blobs]

\* A variant of the fallback in which the last usable blob wins.
manufacturer_version_last(blobs, k) ==
    LET usable == {j \in k..Len(blobs) :
                      /\ Len(blobs[j]) >= MIN_MANUFACTURER_DATA_LEN
                      /\ blobs[j][VERSION_BYTE_MAJOR + 1] <= 99
                      /\ blobs[j][VERSION_BYTE_MINOR + 1] <= 99}
    IN  IF usable = {} THEN None
        ELSE LET j == CHOOSE i \in usable : \A h \in usable : h <= i IN
             Str(str_int(blobs[j][VERSION_BYTE_MAJOR + 1]) \o <<".">>
                 \o str_int(blobs[j][VERSION_BYTE_MINOR + 1]))

\* get_current_version, lines 780-798: the loop over the blobs from the k-th
\* on. A blob too short for an offset raises IndexError, which continues.
RECURSIVE manufacturer_version(_, _)
manufacturer_version(blobs, k) ==
    IF k > Len(blobs) THEN None
    ELSE LET data == blobs[k] IN
         IF Len(data) < MIN_MANUFACTURER_DATA_LEN
         THEN manufacturer_version(blobs, k + 1)
         ELSE IF Len(data) < VERSION_BYTE_MAJOR + 1 \/ Len(data) < VERSION_BYTE_MINOR + 1
         THEN manufacturer_version(blobs, k + 1)
         ELSE LET major == data[VERSION_BYTE_MAJOR + 1]
                  minor == data[VERSION_BYTE_MINOR + 1]
              IN  IF ~(0 <= major /\ major <= 99 /\ 0 <= minor /\ minor <= 99)
                  THEN manufacturer_version(blobs, k + 1)
                  ELSE Str(str_int(major) \o <<".">> \o str_int(minor))

\* Lines 775-803: the version the advertisement gives.
advertisement_version(service_info) ==
    IF service_info = None THEN None
    ELSE IF service_info.manufacturer_data = <<>> THEN None
    ELSE manufacturer_version(service_info.manufacturer_data, 1)

\* get_current_version returns to the caller that task p runs: the sensor
\* coordinator (sensor.py 97-105), the update coordinator (update.py
\* 103-108), the service, or a direct caller.
get_current_version_returns(p, f, version) ==
    LET g == [f EXCEPT !.current_version = version, !.gatt_version = None] IN
    CASE p = "sensor_poll" ->
            [g EXCEPT !.pc = "done",
                      !.ret = [t |-> "dict", current_version |-> version,
                               firmware_source |-> "pvvx"]]
      [] p = "update_poll" ->
            [g EXCEPT !.pc = "fetch_latest", !.api_requests = @ + 1]
      [] p = "reader" -> [g EXCEPT !.pc = "done", !.ret = version]
      [] OTHER -> _async_apply_firmware_versioned(g)

\* An exception that no handler of get_current_version catches leaves it.
get_current_version_raises(p, f, class) ==
    [f EXCEPT !.pc = "done", !.raised = class, !.gatt_version = None]

\* Lines 775-803: the fallback to the advertisement's manufacturer data;
\* service_info is what async_last_service_info returns.
get_current_version_fallback(p, f, service_info) ==
    get_current_version_returns(
        p,
        [f EXCEPT !.ble = Append(@, [op |-> "service_info",
                                     result |-> service_info])],
        advertisement_version(service_info))

\* The handlers of an exception raised inside the `async with` block: the
\* inner one (line 754) falls back, the outer one (line 805) returns None.
get_current_version_except(p, f, class, service_info) ==
    IF class \in {"BleakError", "TimeoutError"}
    THEN get_current_version_fallback(p, f, service_info)
    ELSE IF class \in {"BleakError", "HomeAssistantError"}
    THEN get_current_version_returns(p, f, None)
    ELSE get_current_version_raises(p, f, class)

\* The exception class of a failed BLE operation.
ExcClass(outcome) ==
    IF outcome = "timeout" THEN "TimeoutError" ELSE "BleakError"

\* A variant that falls back to the advertisement without a handle.
get_current_version_call_fallback(p, f, found, service_info) ==
    LET g == [f EXCEPT !.ble = Append(@, [op |-> "resolve", ok |-> found])] IN
    IF ~found
    THEN get_current_version_fallback(p, g, service_info)
    ELSE [g EXCEPT !.pc = "version_connect"]

\* get_current_version, lines 735-748: device resolution, up to the connect.
get_current_version_call(p, f, found, service_info) ==
    LET g == [f EXCEPT !.ble = Append(@, [op |-> "resolve", ok |-> found])] IN
    IF ~found
    THEN get_current_version_returns(p, g, None)
    ELSE [g EXCEPT !.pc = "version_connect"]

\* Lines 746-749 and 634-652: the connect has ended; a connected client is
\* read, an unconnected one is closed, an error falls back to the
\* advertisement (lines 754-803).
get_current_version_connected(p, f, outcome, service_info) ==
    LET g == [f EXCEPT !.ble = Append(@, [op |-> "connect", result |-> outcome])]
    IN  CASE outcome = "connected" ->
                [g EXCEPT !.conn = "connected", !.pc = "version_read"]
          [] outcome = "not_connected" ->
                [g EXCEPT !.conn = "not_connected", !.pc = "version_disconnect"]
          [] OTHER ->
                get_current_version_except(p, g, ExcClass(outcome), service_info)

\* Lines 650-708: read_gatt_char has ended, with a value that the helper
\* validates or with an exception that leaves the helper.
get_current_version_read(p, f, read) ==
    [f EXCEPT !.ble = Append(@, [op |-> "read", char |-> "SOFTWARE_REVISION",
                                 result |-> read]),
              !.gatt_version =
                 IF read.kind = "value"
                 THEN _read_version_from_gatt_validated(read.value)
                 ELSE [t |-> "raise", class |-> ExcClass(read.kind)],
              !.pc = "version_disconnect"]

\* BleakClient.__aexit__ has ended: lines 750-803.
get_current_version_disconnected(p, f, service_info) ==
    LET g == [f EXCEPT !.conn = "closed", !.ble = Append(@, [op |-> "disconnect"])]
    IN  IF f.gatt_version.t = "raise"
        THEN get_current_version_except(p, g, f.gatt_version.class, service_info)
        ELSE IF Truthy(f.gatt_version)
        THEN get_current_version_returns(p, g, f.gatt_version)
        ELSE get_current_version_fallback(p, g, service_info)

\* Texts as the bytes of their ASCII encoding.
encode_ascii(s) == [i \in 1..Len(s) |-> Ord(s[i])]
Fives(n) == [i \in 1..n |-> "5"]

\* What read_gatt_char delivers for the software revision: nothing, texts
\* with and without prefix, padding and patch number, texts that are no
\* version, bytes that are no UTF-8, a no-break space as padding, and texts
\* at and over the maximal length.
Readings ==
    {None, BytesOf(<<>>)}
    \cup {BytesOf(encode_ascii(s)) :
            s \in {V_same, <<"V">> \o V_same, <<"v">> \o V_other,
                   <<" ", "\t", "V">> \o V_same \o <<"\n">>,
                   <<"v", "V">> \o V_same, V_same \o <<".", "1">>,
                   <<"4">>, <<"4", ".">>, V_same \o <<"x">>, <<"V">>, <<" ">>,
                   <<"4", ".">> \o Fives(MAX_VERSION_LENGTH - 2),
                   <<"4", ".">> \o Fives(MAX_VERSION_LENGTH - 1),
                   <<"V", "4", ".">> \o Fives(MAX_VERSION_LENGTH - 3),
                   <<"V", "4", ".">> \o Fives(MAX_VERSION_LENGTH - 2)}}
    \cup {BytesOf(encode_ascii(<<"4", ".">>) \o <<255>>),
          BytesOf(encode_ascii(V_same) \o <<194>>),
          BytesOf(<<194, 160>> \o encode_ascii(V_same))}
ReadOutcomes ==
    {[kind |-> "value", value |-> x] : x \in Readings}
    \cup {[kind |-> k] : k \in {"not_found", "bleak_error", "timeout"}}
ReadOutcomesOf(p) ==
    IF p \in Concurrent
    THEN {[kind |-> "value", value |-> x] :
             x \in {None, BytesOf(encode_ascii(V_same)),
                    BytesOf(encode_ascii(<<"V">> \o V_other))}}
    ELSE ReadOutcomes

\* Manufacturer-data blobs: too short, usable, a byte over 99 at either
\* offset, two-digit numbers.
Blobs ==
    {<<0, 1>>, <<0, 1, 2, 3, 4>>, <<0, 1, 2, 3, 4, 5>>, <<0, 1, 2, 3, 4, 6>>,
     <<0, 1, 2, 3, 100, 5>>, <<0, 1, 2, 3, 4, 255>>, <<0, 1, 2, 3, 12, 34, 9>>}
MaxBlobs == 2
ServiceInfos ==
    {None} \cup {ServiceInfo(b) :
                   b \in UNION {[1..n -> Blobs] : n \in 0..MaxBlobs}}
ServiceInfosOf(p) ==
    IF p \in Concurrent
    THEN {None, ServiceInfo(<<<<0, 1, 2, 3, 4, 5>>>>),
          ServiceInfo(<<<<0, 1, 2, 3, 4, 6>>>>)}
    ELSE ServiceInfos

\* A poll of the sensor coordinator starts.
SensorPoll(p) ==
    /\ p = "sensor_poll"
    /\ task[p].pc = "idle"
    /\ \E found \in BOOLEAN, service_info \in ServiceInfosOf(p) :
          Step(p, get_current_version_call(p, IdleTask, found, service_info))

\* A poll of the update coordinator starts.
UpdatePoll(p) ==
    /\ p = "update_poll"
    /\ task[p].pc = "idle"
    /\ \E found \in BOOLEAN, service_info \in ServiceInfosOf(p) :
          Step(p, get_current_version_call(p, IdleTask, found, service_info))

\* A variant that fails the poll when the device's version is unknown.
_async_update_data_fetched_strict(f, outcome) ==
    LET g == [f EXCEPT !.api_log = Append(@, outcome)] IN
    IF outcome.kind = "raised" \/ outcome.value = None
       \/ f.current_version = None
    THEN [g EXCEPT !.pc = "done", !.raised = E_UPDATE_FAILED]
    ELSE [g EXCEPT !.pc = "done",
                   !.ret = [t |-> "dict",
                            current_version |-> f.current_version,
                            latest_version |-> outcome.value.version,
                            latest_release |-> outcome.value,
                            firmware_source |-> "pvvx"]]

\* _async_update_data, lines 106-125: the await of get_latest_release has
\* ended, with a release, with None, or with an exception that
\* _fetch_github_api does not catch; the handlers of lines 120-125 turn
\* OSError, TimeoutError and aiohttp.ClientError into UpdateFailed.
_async_update_data_fetched(f, outcome) ==
    LET g == [f EXCEPT !.api_log = Append(@, outcome)] IN
    IF outcome.kind = "raised"
    THEN IF outcome.class \in {"UpdateFailed", "OSError", "TimeoutError",
                               "ClientError"}
         THEN [g EXCEPT !.pc = "done", !.raised = E_UPDATE_FAILED]
         ELSE [g EXCEPT !.pc = "done", !.raised = outcome.class]
    ELSE IF outcome.value = None
    THEN [g EXCEPT !.pc = "done", !.raised = E_UPDATE_FAILED]
    ELSE [g EXCEPT !.pc = "done",
                   !.ret = [t |-> "dict",
                            current_version |-> f.current_version,
                            latest_version |-> outcome.value.version,
                            latest_release |-> outcome.value,
                            firmware_source |-> "pvvx"]]

\* What the await of get_latest_release gives the poll: a release, None,
\* or an OSError of the transport that is no aiohttp.ClientError.
LatestOutcomes ==
    {[kind |-> "returned", value |-> r] : r \in {None} \cup ResolverReleases}
    \cup {[kind |-> "raised", class |-> "OSError"]}

UpdateLatestFetched(p) ==
    /\ p = "update_poll"
    /\ task[p].pc = "fetch_latest"
    /\ \E outcome \in LatestOutcomes :
          Step(p, _async_update_data_fetched(task[p], outcome))

\* _async_apply_firmware, lines 172-209: the lookups in the registries, up
\* to the await of get_current_version.
_async_apply_firmware_call(p, f, found, service_info) ==
    LET device == f.args.device IN
    IF device = None
    THEN [f EXCEPT !.pc = "done", !.raised = E_NO_DEVICE]
    ELSE IF ~Truthy(bluetooth_address(device.connections, 1))
    THEN [f EXCEPT !.pc = "done", !.raised = E_NO_MAC]
    ELSE IF find_config_entry(device.config_entries, 1) = None
    THEN [f EXCEPT !.pc = "done", !.raised = E_NO_ENTRY]
    ELSE get_current_version_call(p, f, found, service_info)

\* The devices a call names: unknown to the registry; without a Bluetooth
\* connection or with an empty address; without a config entry of the
\* integration; set up with a known and with an unknown firmware source.
MAC == <<"A", "4", ":", "C", "1">>
Devices ==
    LET bt == <<<<"mac", MAC>>, <<CONNECTION_BLUETOOTH, MAC>>>>
        ok == <<ConfigEntry("other", "pvvx"), ConfigEntry(INTEGRATION_DOMAIN, "pvvx")>>
    IN  {None,
         Device(<<>>, ok),
         Device(<<<<"mac", MAC>>>>, ok),
         Device(<<<<CONNECTION_BLUETOOTH, <<>>>>>>, ok),
         Device(bt, <<>>),
         Device(bt, <<None>>),
         Device(bt, <<ConfigEntry("other", "pvvx")>>),
         Device(bt, ok),
         Device(bt, <<None, ConfigEntry(INTEGRATION_DOMAIN, "bogus")>>)}

\* A call of the apply_firmware service.
ServiceCall(p) ==
    /\ p = "service"
    /\ task[p].pc = "idle"
    /\ \E device \in Devices, found \in BOOLEAN,
          service_info \in ServiceInfosOf(p) :
          Step(p, _async_apply_firmware_call(
                      p, [IdleTask EXCEPT
                             !.args = [desired_version |-> Str(V_tag),
                                       device |-> device]],
                      found, service_info))

VersionConnected(p) ==
    /\ task[p].pc = "version_connect"
    /\ \E outcome \in ConnectOutcomesOf(p), service_info \in ServiceInfosOf(p) :
          Step(p, get_current_version_connected(p, task[p], outcome, service_info))

VersionRead(p) ==
    /\ task[p].pc = "version_read"
    /\ \E read \in ReadOutcomesOf(p) :
          Step(p, get_current_version_read(p, task[p], read))

VersionDisconnected(p) ==
    /\ task[p].pc = "version_disconnect"
    /\ \E service_info \in ServiceInfosOf(p) :
          Step(p, get_current_version_disconnected(p, task[p], service_info))

\* __init__.py 236-271: get_release_by_version has returned.
ServiceReleaseFetched(p) ==
    /\ p = "service"
    /\ task[p].pc = "fetch_release"
    /\ \E release \in {None} \cup ResolverReleases :
          Step(p, IF release = None
                  THEN [task[p] EXCEPT !.pc = "done", !.raised = E_NOT_FOUND]
                  ELSE apply_firmware_update_call(p, task[p], release))

\* update.py 263-284: download_firmware has returned to async_install.
async_install_downloaded(p, f, firmware_data, found) ==
    LET g == [f EXCEPT !.firmware_data = firmware_data] IN
    IF ~Truthy(firmware_data)
    THEN [g EXCEPT !.pc = "done", !.raised = E_DOWNLOAD, !.install_progress = 0]
    ELSE flash_firmware_call(
             p, [g EXCEPT !.install_progress = PROGRESS_DOWNLOAD_COMPLETE], found)

\* update.py 245-263: async_install up to the await of the download.
async_install_call(p, f, data) ==
    LET latest_release == data.latest_release
        g == [f EXCEPT !.release = latest_release]
    IN  IF latest_release = None
        THEN [g EXCEPT !.pc = "done", !.raised = E_NO_RELEASE]
        ELSE IF download_firmware_refuses(latest_release.download_url)
        THEN async_install_downloaded(
                 p, [g EXCEPT !.install_progress = PROGRESS_DOWNLOAD_START], None, FALSE)
        ELSE [g EXCEPT !.pc = "download",
                       !.install_progress = PROGRESS_DOWNLOAD_START,
                       !.http_requests = @ + 1]

\* The install action of the update entity.  The entity exists once its
\* coordinator has data, and update.install is refused while in_progress
\* (update.py 224-229) is not False.
InstallCall(p) ==
    /\ p = "install"
    /\ task[p].pc = "idle"
    /\ coordinator_data # None
    /\ install_progress = 0
    /\ Step(p, async_install_call(
                   p, [IdleTask EXCEPT !.install_progress = install_progress],
                   coordinator_data))

InstallDownloaded(p) ==
    /\ p = "install"
    /\ task[p].pc = "download"
    /\ \E response \in HttpOutcomes(ApplyStatuses, ApplyLengthsOf(p)), found \in BOOLEAN :
          Step(p, async_install_downloaded(
                      p, task[p], download_firmware_response(response), found))

\* update.py 295-306: the coordinator's refresh was awaited; the finally
\* clause resets the progress.
InstallRefreshed(p) ==
    /\ p = "install"
    /\ task[p].pc = "refresh"
    /\ Step(p, [task[p] EXCEPT !.pc = "done", !.install_progress = 0])

\* The entity is set up: the first refresh of its coordinator has published
\* a snapshot.
InitLoaded ==
    /\ task = [p \in Procs |-> IdleTask]
    /\ coordinator_data \in
          {[t |-> "dict", current_version |-> v, latest_version |-> r.version,
            latest_release |-> r, firmware_source |-> "pvvx"] :
              v \in {None, Str(V_other)}, r \in ResolverReleases}
    /\ sensor_data = None
    /\ install_progress = 0
    /\ hass = NoEntries

\* The install action and the apply_firmware service, for one device.
Next ==
    \E p \in {"install", "service"} :
        \/ InstallCall(p)
        \/ InstallDownloaded(p)
        \/ InstallRefreshed(p)
        \/ ServiceCall(p)
        \/ VersionConnected(p)
        \/ VersionRead(p)
        \/ VersionDisconnected(p)
        \/ ServiceReleaseFetched(p)
        \/ ApplyDownloaded(p)
        \/ FlashConnected(p)
        \/ FlashStarted(p)
        \/ FlashChunk(p)
        \/ FlashFinalized(p)
        \/ FlashDisconnected(p)
        \/ TaskDone(p)

Spec == InitLoaded /\ [][Next]_vars

\* The polls of the two coordinators of one device: both are set up with
\* UPDATE_CHECK_INTERVAL (sensor.py 78-83, update.py 89-94) and nothing
\* orders one after the other.
NextBle ==
    \E p \in {"sensor_poll", "update_poll"} :
        \/ SensorPoll(p)
        \/ UpdatePoll(p)
        \/ UpdateLatestFetched(p)
        \/ VersionConnected(p)
        \/ VersionRead(p)
        \/ VersionDisconnected(p)
        \/ TaskDone(p)

SpecBle == Init /\ [][NextBle]_vars

\* C1: in every run of the install action and of the apply_firmware
\* service, flash_firmware is called only after the integrity validator has
\* accepted the downloaded bytes against the release's checksum.
C1_FlashOnlyAfterValidation ==
    \A p \in {"install", "service"} :
        task[p].flash_calls > 0 =>
            _validate_firmware_checksum(task[p].firmware_data,
                                        task[p].release.checksum,
                                        task[p].release.checksum_type)

\* A flash_firmware call of task p is between its connect and its return.
InFlashSession(p) ==
    task[p].pc \in {"flash_start", "flash_chunk", "flash_finalize",
                    "flash_disconnect"}

\* C4: at most one OTA transfer session is active for the device at any
\* time, however an install action and an apply_firmware service call
\* interleave.
C4_OneOtaSession ==
    Cardinality({p \in {"install", "service"} : InFlashSession(p)}) <= 1

\* C5: at most one BLE connection of the integration to the device exists
\* at a time; the get_current_version calls of the two coordinators' polls
\* never overlap.
C5_OneBleConnection ==
    Cardinality({p \in Procs : task[p].conn = "connected"}) <= 1

----------------------------------------------------------------------------
(* Direct calls of FirmwareManager.flash_firmware (firmware.py 240-304).   *)

\* Payload lengths: empty, one byte, one chunk, one chunk and a byte, and
\* four chunks and a part.
FlashLengths == {0, 1, CHUNK_SIZE, CHUNK_SIZE + 1, 1000}
FlashData == {Bytes(n, b) : n \in FlashLengths, b \in 0..(NumBodies - 1)}

CallFlash(p) ==
    /\ p = "flasher"
    /\ task[p].pc = "idle"
    /\ \E firmware_data \in FlashData, cb \in {"none", "given"}, found \in BOOLEAN :
          Step(p, flash_firmware_call(
                      p,
                      [IdleTask EXCEPT !.args = [firmware_data |-> firmware_data,
                                                 progress_callback |-> cb],
                                       !.firmware_data = firmware_data],
                      found))

NextFlash ==
    \E p \in {"flasher"} :
        \/ CallFlash(p)
        \/ FlashConnected(p)
        \/ FlashStarted(p)
        \/ FlashChunk(p)
        \/ FlashFinalized(p)
        \/ FlashDisconnected(p)
        \/ TaskDone(p)

SpecFlash == Init /\ [][NextFlash]_vars

\* The writes task p has made to the data characteristic, and those to the
\* control characteristic.
DataWrites(p) ==
    SelectSeq(task[p].ble, LAMBDA e : e.op = "write" /\ e.char = "OTA_DATA")
ControlWrites(p) ==
    SelectSeq(task[p].ble, LAMBDA e : e.op = "write" /\ e.char = "OTA_CONTROL")

\* C11: at every point of a flash the data chunks written so far are
\* consecutive slices of the payload starting at offset 0 (their
\* concatenation is a prefix of it); a further chunk is in flight only when
\* every earlier write has completed; every chunk but possibly the last has
\* exactly CHUNK_SIZE bytes; and when flash returns true the slices cover the
\* whole payload.
C11_ChunksArePrefix ==
    LET f == task["flasher"]
        w == DataWrites("flasher")
    IN  /\ \A k \in 1..Len(w) :
              /\ w[k].body = f.firmware_data.body
              /\ w[k].off = (k - 1) * CHUNK_SIZE
              /\ w[k].len > 0
              /\ w[k].off + w[k].len <= f.firmware_data.len
              /\ k < Len(w) => w[k].len = CHUNK_SIZE /\ w[k].result = "ok"
              /\ k < NumChunks(f.firmware_data.len) => w[k].len = CHUNK_SIZE
        /\ f.pc = "flash_chunk" =>
              /\ f.cursor = Len(w) * CHUNK_SIZE
              /\ f.cursor < f.firmware_data.len
              /\ \A k \in 1..Len(w) : w[k].result = "ok"
        /\ f.flash_ret = Bool(TRUE) =>
              /\ Len(w) = NumChunks(f.firmware_data.len)
              /\ \A k \in 1..Len(w) : w[k].result = "ok"
              /\ IF Len(w) = 0 THEN f.firmware_data.len = 0
                 ELSE w[Len(w)].off + w[Len(w)].len = f.firmware_data.len

C11_Witness ==
    /\ task["flasher"].pc = "done"
    /\ task["flasher"].ret = Bool(TRUE)
    /\ task["flasher"].firmware_data.len = 1000
    /\ Len(DataWrites("flasher")) = 5
    /\ DataWrites("flasher")[5].len = 24

\* C12: a BLE error or a timeout on a data-chunk write makes flash return
\* false; the failed write is the last write of the call (no further data
\* chunk, no finalize command), and on_progress is invoked neither for the
\* failed chunk nor for a later one.
C12_ChunkFailureAborts ==
    LET f == task["flasher"]
        w == DataWrites("flasher")
    IN  \A k \in 1..Len(w) :
            w[k].result # "ok" =>
                /\ k = Len(w)
                /\ \A c \in 1..Len(ControlWrites("flasher")) :
                       ControlWrites("flasher")[c].data # 2
                /\ f.pc \in {"flash_disconnect", "done"}
                /\ f.flash_pending # Bool(TRUE)
                /\ f.pc = "done" => f.ret = Bool(FALSE)
                /\ Len(f.progress) <= k - 1
                /\ \A j \in 1..Len(f.progress) : f.progress[j].current < k

C12_Witness ==
    /\ task["flasher"].pc = "done"
    /\ task["flasher"].ret = Bool(FALSE)
    /\ task["flasher"].args.progress_callback = "given"
    /\ task["flasher"].firmware_data.len = 1000
    /\ Len(DataWrites("flasher")) = 3
    /\ DataWrites("flasher")[3].result = "timeout"
    /\ Len(task["flasher"].progress) = 2

\* C13: a BLE error or a timeout on the start command or on the finalize
\* command does not fail the flash: once the client is connected, a call
\* whose data writes all succeed writes the start command, every chunk in
\* order and the finalize command, and returns true, whatever the two
\* commands' outcomes are.
C13_ControlFailuresIgnored ==
    LET f == task["flasher"]
        w == DataWrites("flasher")
        c == ControlWrites("flasher")
    IN  /\ f.pc = "flash_chunk" => Len(c) = 1 /\ c[1].data = 1
        /\ ( /\ f.pc = "done"
             /\ Len(c) > 0
             /\ \A k \in 1..Len(w) : w[k].result = "ok" )
           => /\ f.ret = Bool(TRUE)
              /\ Len(w) = NumChunks(f.firmware_data.len)
              /\ \A k \in 1..Len(w) : w[k].off = (k - 1) * CHUNK_SIZE
              /\ Len(c) = 2
              /\ c[1].data = 1
              /\ c[2].data = 2

C13_Witness ==
    /\ task["flasher"].pc = "done"
    /\ task["flasher"].ret = Bool(TRUE)
    /\ task["flasher"].firmware_data.len = 1000
    /\ Len(DataWrites("flasher")) = 5
    /\ ControlWrites("flasher")[1].result = "bleak_error"
    /\ ControlWrites("flasher")[2].result = "timeout"

\* C14: flash writes to no characteristic unless the device resolved and
\* the opened client reports connected; when resolution fails it returns
\* false without opening a connection, and when the client is not connected
\* it returns false with the connection closed.
C14_NoWriteUnlessConnected ==
    LET f == task["flasher"]
        b == f.ble
    IN  /\ (\E k \in 1..Len(b) : b[k].op = "write") =>
              /\ b[1] = [op |-> "resolve", ok |-> TRUE]
              /\ b[2] = [op |-> "connect", result |-> "connected"]
        /\ (f.pc = "done" /\ b[1].ok = FALSE) =>
              /\ f.ret = Bool(FALSE)
              /\ b = <<[op |-> "resolve", ok |-> FALSE]>>
              /\ f.conn = "closed"
        /\ (f.pc = "done" /\ Len(b) >= 2 /\ b[2].result = "not_connected") =>
              /\ f.ret = Bool(FALSE)
              /\ b = <<[op |-> "resolve", ok |-> TRUE],
                       [op |-> "connect", result |-> "not_connected"],
                       [op |-> "disconnect"]>>
              /\ f.conn = "closed"

C14_Witness ==
    /\ task["flasher"].pc = "done"
    /\ task["flasher"].ret = Bool(FALSE)
    /\ Len(task["flasher"].ble) = 3
    /\ task["flasher"].ble[2].result = "not_connected"
    /\ task["flasher"].conn = "closed"

\* C15: a flash of n bytes that returns true has invoked on_progress exactly
\* ceil(n / CHUNK_SIZE) times, the k-th time with current = k and
\* total = ceil(n / CHUNK_SIZE): five times for 1000 bytes, the last with
\* current = total.
C15_ProgressCounts ==
    LET f == task["flasher"] IN
    (f.pc = "done" /\ f.ret = Bool(TRUE) /\ f.args.progress_callback = "given") =>
        /\ Len(f.progress) = NumChunks(f.firmware_data.len)
        /\ \A k \in 1..Len(f.progress) :
              /\ f.progress[k].current = k
              /\ f.progress[k].total = NumChunks(f.firmware_data.len)

C15_Witness ==
    /\ task["flasher"].pc = "done"
    /\ task["flasher"].ret = Bool(TRUE)
    /\ task["flasher"].args.progress_callback = "given"
    /\ task["flasher"].firmware_data.len = 1000
    /\ Len(task["flasher"].progress) = 5
    /\ task["flasher"].progress[5] = [current |-> 5, total |-> 5, raised |-> FALSE]

\* C16: in apply_firmware_update an exception of the caller's progress
\* callback does not abort the flash: the callback has been invoked once for
\* every chunk written so far, whatever it raised before, and a call whose
\* BLE writes all succeed writes every chunk and the finalize command and
\* returns true.
C16_CallbackErrorsSwallowed ==
    LET f == task["api"]
        w == DataWrites("api")
        c == ControlWrites("api")
        oks == SelectSeq(w, LAMBDA e : e.result = "ok")
    IN  /\ (f.pc # "idle" /\ f.args.progress_callback = "given") =>
              /\ Len(f.progress) = Len(oks)
              /\ \A k \in 1..Len(f.progress) : f.progress[k].current = k
        /\ (f.pc = "done" /\ Len(c) > 0 /\ Len(oks) = Len(w)) =>
              /\ f.ret = Bool(TRUE)
              /\ f.raised = ""
              /\ Len(w) = NumChunks(f.firmware_data.len)
              /\ Len(c) = 2
              /\ c[2].data = 2

C16_Witness ==
    /\ task["api"].pc = "done"
    /\ task["api"].ret = Bool(TRUE)
    /\ Len(task["api"].progress) = 5
    /\ task["api"].progress[1].raised
    /\ task["api"].progress[3].raised
    /\ ~task["api"].progress[5].raised
    /\ Len(DataWrites("api")) = 5
    /\ Len(ControlWrites("api")) = 2

----------------------------------------------------------------------------
(* FirmwareManager._parse_checksum_from_release (firmware.py 443-490).      *)
(* The three patterns are searched as re.search does: leftmost match, with   *)
(* the file name escaped to a literal.  File names do not start with         *)
(* whitespace.                                                               *)

\* [a-fA-F0-9]
IsHexChar(c) ==
    \/ \E k \in 1..16 : HexDigits[k] = c
    \/ c \in {"A", "B", "C", "D", "E", "F"}

\* \s
Whitespace == {" ", "\t", "\n"}

\* The index after the whitespace that starts at index i.
RECURSIVE skip_whitespace(_, _)
skip_whitespace(s, i) ==
    IF i <= Len(s) /\ s[i] \in Whitespace THEN skip_whitespace(s, i + 1) ELSE i

literal_at(s, i, lit) ==
    /\ i + Len(lit) - 1 <= Len(s)
    /\ SubSeq(s, i, i + Len(lit) - 1) = lit

\* A literal under re.IGNORECASE.
literal_at_ignorecase(s, i, lit) ==
    /\ i + Len(lit) - 1 <= Len(s)
    /\ str_lower(SubSeq(s, i, i + Len(lit) - 1)) = str_lower(lit)

\* [a-fA-F0-9]{n} at index i
hex_run_at(s, i, n) ==
    /\ i + n - 1 <= Len(s)
    /\ \A j \in i..(i + n - 1) : IsHexChar(s[j])

\* ([a-fA-F0-9]{n})\s+<filename> matches at index i.
hash_then_name_at(s, i, n, filename) ==
    /\ hex_run_at(s, i, n)
    /\ skip_whitespace(s, i + n) > i + n
    /\ literal_at(s, skip_whitespace(s, i + n), filename)

\* re.search of that pattern: group(1) of the leftmost match, or None.
hash_then_name_search(s, n, filename) ==
    LET at == {i \in 1..Len(s) : hash_then_name_at(s, i, n, filename)} IN
    IF at = {} THEN None
    ELSE LET i == CHOOSE i \in at : \A j \in at : i <= j
         IN  Str(SubSeq(s, i, i + n - 1))

\* SHA256\s*\(\s*<filename>\s*\)\s*=\s*([a-fA-F0-9]{64}) under
\* re.IGNORECASE matches at index i with group(1) at the index returned;
\* 0 when it does not match.
sha256_of_name_at(s, i, filename) ==
    IF ~literal_at_ignorecase(s, i, S_sha256) THEN 0
    ELSE LET j1 == skip_whitespace(s, i + Len(S_sha256)) IN
    IF ~literal_at(s, j1, <<"(">>) THEN 0
    ELSE LET j2 == skip_whitespace(s, j1 + 1) IN
    IF ~literal_at_ignorecase(s, j2, filename) THEN 0
    ELSE LET j3 == skip_whitespace(s, j2 + Len(filename)) IN
    IF ~literal_at(s, j3, <<")">>) THEN 0
    ELSE LET j4 == skip_whitespace(s, j3 + 1) IN
    IF ~literal_at(s, j4, <<"=">>) THEN 0
    ELSE LET j5 == skip_whitespace(s, j4 + 1) IN
    IF hex_run_at(s, j5, 64) THEN j5 ELSE 0

sha256_of_name_search(s, filename) ==
    LET at == {i \in 1..Len(s) : sha256_of_name_at(s, i, filename) > 0} IN
    IF at = {} THEN None
    ELSE LET i == CHOOSE i \in at : \A j \in at : i <= j
             g == sha256_of_name_at(s, i, filename)
         IN  Str(SubSeq(s, g, g + 63))

\* A variant that returns the digest as the notes spell it.
_parse_checksum_from_release_verbatim(release_body, firmware_filename) ==
    IF ~Truthy(release_body) \/ ~Truthy(firmware_filename)
    THEN <<None, None>>
    ELSE LET body == release_body.v
             name == firmware_filename.v
             m1 == hash_then_name_search(body, 64, name)
             m2 == sha256_of_name_search(body, name)
             m3 == hash_then_name_search(body, 128, name)
         IN  IF m1 # None THEN <<m1, Str(S_sha256)>>
             ELSE IF m2 # None THEN <<m2, Str(S_sha256)>>
             ELSE IF m3 # None THEN <<m3, Str(S_sha512)>>
             ELSE <<None, None>>

\* A variant that leaves the type of the openssl form unset.
_parse_checksum_from_release_untyped(release_body, firmware_filename) ==
    IF ~Truthy(release_body) \/ ~Truthy(firmware_filename)
    THEN <<None, None>>
    ELSE LET body == release_body.v
             name == firmware_filename.v
             m1 == hash_then_name_search(body, 64, name)
             m2 == sha256_of_name_search(body, name)
             m3 == hash_then_name_search(body, 128, name)
         IN  IF m1 # None THEN <<Str(str_lower(m1.v)), Str(S_sha256)>>
             ELSE IF m2 # None THEN <<Str(str_lower(m2.v)), None>>
             ELSE IF m3 # None THEN <<Str(str_lower(m3.v)), Str(S_sha512)>>
             ELSE <<None, None>>

_parse_checksum_from_release(release_body, firmware_filename) ==
    IF ~Truthy(release_body) \/ ~Truthy(firmware_filename)
    THEN <<None, None>>
    ELSE LET body == release_body.v
             name == firmware_filename.v
             m1 == hash_then_name_search(body, 64, name)
             m2 == sha256_of_name_search(body, name)
             m3 == hash_then_name_search(body, 128, name)
         IN  IF m1 # None THEN <<Str(str_lower(m1.v)), Str(S_sha256)>>
             ELSE IF m2 # None THEN <<Str(str_lower(m2.v)), Str(S_sha256)>>
             ELSE IF m3 # None THEN <<Str(str_lower(m3.v)), Str(S_sha512)>>
             ELSE <<None, None>>

----------------------------------------------------------------------------
(* The release resolver: FirmwareManager.get_latest_release with            *)
(* _fetch_github_api (firmware.py 69-173) and get_release_by_version        *)
(* (firmware.py 330-441).                                                   *)

_max_retries == 3
_retry_delay_base == 2

\* A key the feed's JSON object does not hold.
Missing == [t |-> "missing"]

N_readme == <<"r", ".", "t", "x", "t">>
N_atc1 == <<"A", "T", "C", "_", "1", ".", "b", "i", "n">>
N_atc2 == <<"A", "T", "C", "_", "2", ".", "b", "i", "n">>
N_plain == <<"z", ".", "b", "i", "n">>
N_lower == <<"a", "t", "c", "_", "1", ".", "b", "i", "n">>
S_dot_bin == <<".", "b", "i", "n">>
S_ATC == <<"A", "T", "C", "_">>
S_unknown == <<"u", "n", "k", "n", "o", "w", "n">>

\* A JSON array.
List(v) == [t |-> "list", v |-> v]

\* An asset of the feed; its download URL ends with its name.
Asset(name) ==
    [name |-> Str(name), browser_download_url |-> Str(S_https \o <<"h", "/">> \o name)]

\* Asset lists of a release, in feed order; the last two hold an asset
\* without a "name" key.
FeedAssets ==
    {Missing,
     List(<<>>),
     List(<<Asset(N_readme)>>),
     List(<<Asset(N_readme), Asset(N_atc1)>>),
     List(<<Asset(N_atc1), Asset(N_readme)>>),
     List(<<Asset(N_readme), Asset(N_atc2), Asset(N_atc1)>>),
     List(<<Asset(N_plain), Asset(N_atc1)>>),
     List(<<Asset(N_lower), Asset(N_readme)>>),
     List(<<Asset(N_atc1), [browser_download_url |-> Str(S_https)]>>),
     List(<<[browser_download_url |-> Str(S_https)], Asset(N_atc1)>>)}

\* Release notes: absent, null, without a checksum, or with the digest of
\* the first ATC_ asset in one of the parser's three forms.
FeedBodies ==
    {Missing, None, Str(<<"n", "o", "t", "e", "s">>),
     Str(hexdigest(S_sha256, Image0) \o <<" ">> \o N_atc1),
     Str(hexdigest(S_sha512, Image0) \o <<" ", " ">> \o N_atc1),
     Str(S_sha256 \o <<"(">> \o N_atc1 \o <<")", "=", " ">>
         \o hexdigest(S_sha256, Image0))}

ApiFeeds ==
    {[assets |-> a, body |-> b, tag_name |-> t] :
        a \in FeedAssets, b \in FeedBodies, t \in {Missing, Str(V_tag)}}

\* re.match(asset_pattern, name) for the two patterns of FIRMWARE_SOURCES:
\* "ATC_.*\.bin$" and ".*\.bin$", on names without line breaks.
asset_pattern_matches(firmware_source, name) ==
    /\ Len(name) >= Len(S_dot_bin)
    /\ SubSeq(name, Len(name) - Len(S_dot_bin) + 1, Len(name)) = S_dot_bin
    /\ firmware_source = "pvvx" =>
          /\ startswith(name, S_ATC)
          /\ Len(name) >= Len(S_ATC) + Len(S_dot_bin)

\* A variant whose later matches replace earlier ones.
RECURSIVE find_asset_last(_, _, _)
find_asset_last(assets, k, firmware_source) ==
    IF k > Len(assets) THEN 0
    ELSE IF "name" \notin DOMAIN assets[k] THEN -1
    ELSE LET rest == find_asset_last(assets, k + 1, firmware_source) IN
         IF rest # 0 THEN rest
         ELSE IF asset_pattern_matches(firmware_source, assets[k].name.v)
         THEN k ELSE 0

\* The loop of lines 142-146 (412-416): the index of the first asset whose
\* name matches, 0 when there is none, -1 when the loop raised KeyError.
RECURSIVE find_asset(_, _, _)
find_asset(assets, k, firmware_source) ==
    IF k > Len(assets) THEN 0
    ELSE IF "name" \notin DOMAIN assets[k] THEN -1
    ELSE IF asset_pattern_matches(firmware_source, assets[k].name.v)
    THEN IF "browser_download_url" \in DOMAIN assets[k] THEN k ELSE -1
    ELSE find_asset(assets, k + 1, firmware_source)

\* Lines 139-173 of get_latest_release and 405-441 of
\* get_release_by_version: the release built from the feed's JSON object,
\* or None.
get_release_built(args, data) ==
    LET assets == IF data.assets = Missing THEN <<>> ELSE data.assets.v
        k == find_asset(assets, 1, args.firmware_source)
    IN  IF k <= 0 THEN None
        ELSE LET parsed == _parse_checksum_from_release(
                               IF data.body = Missing THEN Str(<<>>) ELSE data.body,
                               assets[k].name)
             IN  FirmwareRelease(
                     IF data.tag_name # Missing THEN data.tag_name
                     ELSE IF args.op = "by_tag" THEN args.version
                     ELSE Str(S_unknown),
                     assets[k].browser_download_url,
                     parsed[1], parsed[2])

\* The outcomes of one GET of the release feed: an exception of the session,
\* a 200 with the feed's JSON object, or another status.
ApiOutcomes ==
    {[kind |-> "timeout"], [kind |-> "client_error"]}
    \cup {[kind |-> "response", status |-> s] : s \in {404, 429, 500}}
    \cup {[kind |-> "response", status |-> 200, data |-> d] : d \in ApiFeeds}

\* A variant whose delay grows by the base with every attempt.
_fetch_github_api_responded_linear(f, outcome) ==
    LET g == [f EXCEPT !.api_log = Append(@, outcome)] IN
    IF outcome.kind # "response" THEN [g EXCEPT !.pc = "done", !.ret = None]
    ELSE IF outcome.status = 404 /\ f.args.op = "by_tag"
    THEN [g EXCEPT !.pc = "done", !.ret = None]
    ELSE IF outcome.status = 429
    THEN IF f.attempt < _max_retries
         THEN [g EXCEPT !.pc = "backoff",
                        !.delays = Append(@, _retry_delay_base * (f.attempt + 1))]
         ELSE [g EXCEPT !.pc = "done", !.ret = None]
    ELSE IF outcome.status # 200 THEN [g EXCEPT !.pc = "done", !.ret = None]
    ELSE [g EXCEPT !.pc = "done", !.ret = get_release_built(f.args, outcome.data)]

\* A variant that retries every status other than 200 and 404.
_fetch_github_api_responded_retrying(f, outcome) ==
    LET g == [f EXCEPT !.api_log = Append(@, outcome)] IN
    IF outcome.kind # "response" THEN [g EXCEPT !.pc = "done", !.ret = None]
    ELSE IF outcome.status = 404 /\ f.args.op = "by_tag"
    THEN [g EXCEPT !.pc = "done", !.ret = None]
    ELSE IF outcome.status # 200
    THEN IF f.attempt < _max_retries
         THEN [g EXCEPT !.pc = "backoff",
                        !.delays = Append(@, _retry_delay_base ^ (f.attempt + 1))]
         ELSE [g EXCEPT !.pc = "done", !.ret = None]
    ELSE [g EXCEPT !.pc = "done", !.ret = get_release_built(f.args, outcome.data)]

\* One GET of the retry loop has ended: _fetch_github_api, lines 80-122, with
\* get_latest_release's use of the data (lines 135-173), and the loop of
\* get_release_by_version, lines 357-403, which differs by its 404 branch,
\* with lines 405-441.
_fetch_github_api_responded(f, outcome) ==
    LET g == [f EXCEPT !.api_log = Append(@, outcome)] IN
    IF outcome.kind # "response" THEN [g EXCEPT !.pc = "done", !.ret = None]
    ELSE IF outcome.status = 404 /\ f.args.op = "by_tag"
    THEN [g EXCEPT !.pc = "done", !.ret = None]
    ELSE IF outcome.status = 429
    THEN IF f.attempt < _max_retries
         THEN [g EXCEPT !.pc = "backoff",
                        !.delays = Append(@, _retry_delay_base ^ (f.attempt + 1))]
         ELSE [g EXCEPT !.pc = "done", !.ret = None]
    ELSE IF outcome.status # 200 THEN [g EXCEPT !.pc = "done", !.ret = None]
    ELSE [g EXCEPT !.pc = "done", !.ret = get_release_built(f.args, outcome.data)]

\* A variant that queries the feed for a source it does not know.
get_release_call_default(f) ==
    [f EXCEPT !.pc = "fetch", !.api_requests = 1]

\* get_latest_release, lines 126-134, and get_release_by_version, lines
\* 342-357: the source is looked up; up to the first GET.
get_release_call(f) ==
    IF f.args.firmware_source \notin FIRMWARE_SOURCES
    THEN [f EXCEPT !.pc = "done", !.ret = None]
    ELSE [f EXCEPT !.pc = "fetch", !.api_requests = 1]

\* A direct call of get_latest_release or of get_release_by_version.
ResolverCall(p) ==
    /\ p = "resolver"
    /\ task[p].pc = "idle"
    /\ \E op \in {"latest", "by_tag"}, firmware_source \in {"pvvx", "atc1441", "bogus"} :
          LET f == [IdleTask EXCEPT !.args = [op |-> op,
                                              firmware_source |-> firmware_source,
                                              version |-> Str(V_tag)]]
          IN  Step(p, get_release_call(f))

ResolverResponded(p) ==
    /\ p = "resolver"
    /\ task[p].pc = "fetch"
    /\ \E outcome \in ApiOutcomes :
          Step(p, _fetch_github_api_responded(task[p], outcome))

\* asyncio.sleep(delay) has ended; continue: the next attempt's GET.
ResolverSlept(p) ==
    /\ p = "resolver"
    /\ task[p].pc = "backoff"
    /\ Step(p, [task[p] EXCEPT !.pc = "fetch",
                               !.attempt = @ + 1,
                               !.api_requests = @ + 1])

NextResolve ==
    \E p \in {"resolver"} :
        \/ ResolverCall(p)
        \/ ResolverResponded(p)
        \/ ResolverSlept(p)
        \/ TaskDone(p)

SpecResolve == Init /\ [][NextResolve]_vars

\* The first n delays of the backoff.
BackoffDelays == <<2, 4, 8>>

\* C17: in both resolver operations every 429 but the fourth is followed by
\* a sleep of 2, 4, then 8 seconds and one more request, so a call issues at
\* most 4 requests; when all 4 answers are 429 the call returns None, and a
\* 200 on any attempt ends the call with the release built from it.
C17_BackoffOn429 ==
    LET f == task["resolver"] IN
    /\ f.api_requests <= _max_retries + 1
    /\ Len(f.delays) <= _max_retries
    /\ f.delays = SubSeq(BackoffDelays, 1, Len(f.delays))
    /\ f.pc \in {"fetch", "backoff"} =>
          /\ \A k \in 1..Len(f.api_log) :
                f.api_log[k] = [kind |-> "response", status |-> 429]
          /\ Len(f.delays) = IF f.pc = "backoff" THEN Len(f.api_log)
                             ELSE f.api_requests - 1
          /\ f.api_requests = f.attempt + 1
    /\ (f.pc = "done" /\ Len(f.api_log) = _max_retries + 1
        /\ f.api_log[_max_retries + 1] = [kind |-> "response", status |-> 429])
       => f.ret = None /\ f.raised = "" /\ f.delays = BackoffDelays
    /\ (f.pc = "done" /\ Len(f.api_log) > 0
        /\ f.api_log[Len(f.api_log)].kind = "response"
        /\ f.api_log[Len(f.api_log)].status = 200)
       => f.ret = get_release_built(f.args, f.api_log[Len(f.api_log)].data)

C17_Witness ==
    /\ task["resolver"].pc = "done"
    /\ task["resolver"].api_requests = 4
    /\ task["resolver"].delays = <<2, 4, 8>>
    /\ Len(task["resolver"].api_log) = 4
    /\ task["resolver"].api_log[4].kind = "response"
    /\ task["resolver"].api_log[4].status = 200
    /\ task["resolver"].ret # None
    /\ task["resolver"].ret.download_url = Asset(N_atc1).browser_download_url

\* An outcome that ends a resolver call at once: a 404 on the by-tag form, a
\* status that is neither 200 nor 429, a timeout or a transport error.
Terminal(outcome) ==
    \/ outcome.kind # "response"
    \/ outcome.status \notin {200, 429}

\* C18: in both resolver operations such an outcome ends the call with None,
\* with no further request and without raising, also on a retry after 429
\* answers.
C18_TerminalOutcomes ==
    LET f == task["resolver"] IN
    \A k \in 1..Len(f.api_log) :
        Terminal(f.api_log[k]) =>
            /\ k = Len(f.api_log)
            /\ f.pc = "done"
            /\ f.ret = None
            /\ f.raised = ""
            /\ f.api_requests = k

C18_Witness ==
    /\ task["resolver"].pc = "done"
    /\ task["resolver"].args.op = "by_tag"
    /\ Len(task["resolver"].api_log) = 3
    /\ task["resolver"].api_log[2] = [kind |-> "response", status |-> 429]
    /\ task["resolver"].api_log[3] = [kind |-> "response", status |-> 404]
    /\ task["resolver"].ret = None
    /\ task["resolver"].api_requests = 3

\* The last answer of a finished resolver call was a 200: its JSON object.
FeedOf(f) == f.api_log[Len(f.api_log)].data
Answered200(f) ==
    /\ f.pc = "done"
    /\ Len(f.api_log) > 0
    /\ f.api_log[Len(f.api_log)].kind = "response"
    /\ f.api_log[Len(f.api_log)].status = 200

\* C22: the resolver selects the first asset, in feed order, whose file name
\* matches the source's pattern, whatever assets come before it, and returns
\* None when no asset matches or the feed has no asset list.
C22_FirstMatchingAsset ==
    LET f == task["resolver"] IN
    Answered200(f) =>
        LET assets == IF FeedOf(f).assets = Missing THEN <<>> ELSE FeedOf(f).assets.v
            matching == {k \in 1..Len(assets) :
                            /\ "name" \in DOMAIN assets[k]
                            /\ asset_pattern_matches(f.args.firmware_source,
                                                     assets[k].name.v)}
        IN  /\ f.raised = ""
            /\ matching = {} => f.ret = None
            /\ \A k \in matching :
                  ( /\ \A j \in matching : k <= j
                    /\ \A j \in 1..k : DOMAIN assets[j] = DOMAIN Asset(N_atc1) )
                  => /\ f.ret # None
                     /\ f.ret.download_url = assets[k].browser_download_url

C22_Witness ==
    /\ Answered200(task["resolver"])
    /\ task["resolver"].args.firmware_source = "pvvx"
    /\ FeedOf(task["resolver"]).assets
          = List(<<Asset(N_readme), Asset(N_atc2), Asset(N_atc1)>>)
    /\ task["resolver"].ret # None
    /\ task["resolver"].ret.download_url = Asset(N_atc2).browser_download_url

\* C23: every FirmwareRelease the resolver returns has checksum and
\* checksum_type both set or both unset, and a set checksum_type is sha256
\* or sha512.
C23_ChecksumPair ==
    LET f == task["resolver"] IN
    (f.pc = "done" /\ f.ret # None) =>
        \/ f.ret.checksum = None /\ f.ret.checksum_type = None
        \/ /\ Truthy(f.ret.checksum)
           /\ Truthy(f.ret.checksum_type)
           /\ f.ret.checksum_type.v \in {S_sha256, S_sha512}

C23_Witness ==
    /\ Answered200(task["resolver"])
    /\ task["resolver"].args.op = "by_tag"
    /\ task["resolver"].ret # None
    /\ task["resolver"].ret.checksum = Str(hexdigest(S_sha256, Image0))
    /\ task["resolver"].ret.checksum_type = Str(S_sha256)
    /\ FeedOf(task["resolver"]).body.v[1] = "s"

\* C24: for a source that is not in FIRMWARE_SOURCES both resolver
\* operations return None without raising and without a request.
C24_UnknownSource ==
    LET f == task["resolver"] IN
    (f.pc # "idle" /\ f.args.firmware_source \notin FIRMWARE_SOURCES) =>
        /\ f.pc = "done"
        /\ f.ret = None
        /\ f.raised = ""
        /\ f.api_requests = 0
        /\ f.api_log = <<>>

C24_Witness ==
    /\ task["resolver"].pc = "done"
    /\ task["resolver"].args.firmware_source = "bogus"
    /\ task["resolver"].args.op = "by_tag"
    /\ task["resolver"].ret = None
    /\ task["resolver"].api_requests = 0

----------------------------------------------------------------------------
(* Direct calls of FirmwareManager._parse_checksum_from_release.           *)

\* Asset names, digests and release notes for direct calls of the parser.
N_asset == <<"f", ".", "b", "i", "n">>
N_other == <<"g", ".", "b", "i", "n">>
ParseFilenames == {None, Str(<<>>), Str(N_asset)}

T_sha256 == hexdigest(S_sha256, Image0)
T_sha512 == hexdigest(S_sha512, Image0)
ParseTokens ==
    {T_sha256, str_upper(T_sha256), T_sha512, str_upper(T_sha512),
     SubSeq(T_sha256, 1, 63), T_sha256 \o <<"0">>,
     hexdigest(S_md5, Image0), hexdigest(S_sha1, Image0)}

\* '<digest> <file>' lines, as sha256sum and sha512sum print them.
SumNotes ==
    {pre \o tok \o sep \o name :
        pre \in {<<>>, <<"s", "u", "m", ":", " ">>},
        tok \in ParseTokens,
        sep \in {<<>>, <<" ">>, <<" ", " ">>, <<"\t">>, <<"\n">>, <<" ", "*">>},
        name \in {N_asset, N_other}}

\* 'SHA256(<file>)= <digest>' lines, as openssl prints them.
OpensslNotes ==
    {kw \o w \o <<"(">> \o name \o <<")">> \o w \o <<"=">> \o sep \o tok :
        kw \in {str_upper(S_sha256), S_sha256, str_upper(S_sha512)},
        w \in {<<>>, <<" ">>},
        name \in {N_asset, str_upper(N_asset), N_other},
        sep \in {<<>>, <<" ">>},
        tok \in {T_sha256, str_upper(T_sha256), T_sha512, SubSeq(T_sha256, 1, 63)}}

ParseBodies ==
    {None, Str(<<>>), Str(<<"n", "o", "t", "e", "s">>)}
    \cup {Str(b) : b \in SumNotes \cup OpensslNotes}

\* A direct call of _parse_checksum_from_release.
CallParse(p) ==
    /\ p = "parser"
    /\ task[p].pc = "idle"
    /\ \E release_body \in ParseBodies, firmware_filename \in ParseFilenames :
          Step(p, [IdleTask EXCEPT
                      !.pc = "done",
                      !.args = [release_body |-> release_body,
                                firmware_filename |-> firmware_filename],
                      !.ret = [t |-> "tuple",
                               v |-> _parse_checksum_from_release(
                                         release_body, firmware_filename)]])

NextParse ==
    \E p \in {"parser"} : CallParse(p) \/ TaskDone(p)

SpecParse == Init /\ [][NextParse]_vars

\* The notes hold one checksum: a token of exactly n hexadecimal characters
\* followed by whitespace and the file name.
OnlyChecksumIs(body, n, filename, i) ==
    /\ hash_then_name_at(body, i, n, filename)
    /\ i = 1 \/ ~IsHexChar(body[i - 1])
    /\ \A j \in 1..Len(body) :
          (j < i \/ j >= i + n) => ~hex_run_at(body, j, 32)

\* C20: for release notes whose only checksum is a 128-hex-character token
\* followed by the matched file name, the parser returns that whole token
\* with type sha512.
C20_Sha512TokenExtracted ==
    LET f == task["parser"] IN
    (f.pc = "done" /\ Truthy(f.args.release_body) /\ Truthy(f.args.firmware_filename)) =>
        \A i \in 1..Len(f.args.release_body.v) :
            OnlyChecksumIs(f.args.release_body.v, 128, f.args.firmware_filename.v, i)
            => f.ret.v = <<Str(str_lower(SubSeq(f.args.release_body.v, i, i + 127))),
                           Str(S_sha512)>>

\* None of the parser's three patterns matches anywhere in the notes.
NoPatternMatches(body, filename) ==
    \A i \in 1..Len(body) :
        /\ ~hash_then_name_at(body, i, 64, filename)
        /\ sha256_of_name_at(body, i, filename) = 0
        /\ ~hash_then_name_at(body, i, 128, filename)

----------------------------------------------------------------------------
(* Direct calls of FirmwareManager.get_current_version (firmware.py        *)
(* 710-807).                                                                *)

\* A call of get_current_version while the advertisement cache of
\* hass.bluetooth holds service_info for the address.
CallVersion(p) ==
    /\ p = "reader"
    /\ task[p].pc = "idle"
    /\ \E found \in BOOLEAN,
          service_info \in {None, ServiceInfo(<<<<0, 1, 2, 3, 4, 5>>>>)} :
          Step(p, get_current_version_call(
                      p, [IdleTask EXCEPT
                             !.args = [last_service_info |-> service_info]],
                      found, service_info))

NextVersion ==
    \E p \in {"reader"} :
        \/ CallVersion(p)
        \/ VersionConnected(p)
        \/ VersionRead(p)
        \/ VersionDisconnected(p)
        \/ TaskDone(p)

SpecVersion == Init /\ [][NextVersion]_vars

\* The entries of the call's BLE log with operation op.
BleOps(f, op) == {i \in 1..Len(f.ble) : f.ble[i].op = op}
Returned(f) == f.pc = "done" /\ f.raised = ""

\* C25: get_current_version never raises to its caller, whatever device
\* resolution, connection, characteristic read (BLE error, characteristic
\* not found, timeout, undecodable or malformed bytes) and advertisement
\* lookup deliver: it returns a version string or None.
C25_VersionNeverRaises ==
    LET f == task["reader"] IN
    f.pc = "done" =>
        /\ f.raised = ""
        /\ \/ f.ret = None
           \/ f.ret.t = "str" /\ f.ret.v # <<>>

\* A call that has read bytes that are no UTF-8 and has returned.
C25_Witness ==
    LET f == task["reader"] IN
    /\ Returned(f)
    /\ \E i \in BleOps(f, "read") :
          /\ f.ble[i].result.kind = "value"
          /\ f.ble[i].result.value # None
          /\ decode_utf8(f.ble[i].result.value.body) = DecodeError

\* The reading passes every check of the characteristic path: it is not
\* empty, decodes as UTF-8, and its trimmed text is not empty, not longer
\* than the maximum and, with one leading prefix character removed, of the
\* version format.
Unprefixed(s) ==
    IF s # <<>> /\ Head(s) \in VERSION_PREFIX_CHARS THEN Tail(s) ELSE s
ValidReading(x) ==
    /\ x # None
    /\ x.body # <<>>
    /\ decode_utf8(x.body) # DecodeError
    /\ LET s == strip(decode_utf8(x.body)) IN
       /\ s # <<>>
       /\ Len(s) <= MAX_VERSION_LENGTH
       /\ VERSION_VALIDATION_PATTERN(Unprefixed(s))

\* The call has read a reading that passes every check.
ReadValid(f) ==
    \E i \in BleOps(f, "read") :
        /\ f.ble[i].result.kind = "value"
        /\ ValidReading(f.ble[i].result.value)

\* A blob of sufficient length whose bytes at the two offsets are in 0..99.
WellFormed(data) ==
    /\ Len(data) >= MIN_MANUFACTURER_DATA_LEN
    /\ Len(data) > VERSION_BYTE_MAJOR /\ Len(data) > VERSION_BYTE_MINOR
    /\ data[VERSION_BYTE_MAJOR + 1] \in 0..99
    /\ data[VERSION_BYTE_MINOR + 1] \in 0..99
BlobsOf(service_info) ==
    IF service_info = None THEN <<>> ELSE service_info.manufacturer_data

\* version is "major.minor" of the first well-formed blob, or None when
\* there is none.
FirstWellFormed(service_info, version) ==
    LET blobs == BlobsOf(service_info)
        good == {j \in 1..Len(blobs) : WellFormed(blobs[j])}
    IN  IF good = {} THEN version = None
        ELSE \E j \in good :
                /\ \A h \in good : j <= h
                /\ version = Str(str_int(blobs[j][VERSION_BYTE_MAJOR + 1])
                                 \o <<".">>
                                 \o str_int(blobs[j][VERSION_BYTE_MINOR + 1]))

\* C26: when a connectable handle exists and the characteristic path yields
\* no valid version (client not connected, empty or None reading, UTF-8
\* decode failure, over-long string, pattern mismatch, BLE error or
\* timeout), get_current_version returns the advertisement-derived
\* version: "major.minor" of the first manufacturer-data blob of sufficient
\* length whose bytes at the two fixed offsets are both in 0..99, or None
\* when there is no such blob.
C26_FallbackToAdvertisement ==
    LET f == task["reader"] IN
    (/\ f.pc = "done"
     /\ \E i \in BleOps(f, "resolve") : f.ble[i].ok
     /\ ~ReadValid(f))
    => /\ f.raised = ""
       /\ \E i \in BleOps(f, "service_info") :
             FirstWellFormed(f.ble[i].result, f.ret)

\* A call whose reading was over-long and whose advertisement held an
\* unusable blob before a usable one.
C26_Witness ==
    LET f == task["reader"] IN
    /\ Returned(f)
    /\ \E i \in BleOps(f, "read") :
          /\ f.ble[i].result.kind = "value"
          /\ f.ble[i].result.value # None
          /\ f.ble[i].result.value.len > MAX_VERSION_LENGTH
    /\ \E i \in BleOps(f, "service_info") :
          /\ Len(BlobsOf(f.ble[i].result)) = 2
          /\ ~WellFormed(f.ble[i].result.manufacturer_data[1])
          /\ WellFormed(f.ble[i].result.manufacturer_data[2])
    /\ f.ret # None

\* C27: whenever get_current_version returns a value read from the
\* software-revision characteristic, it is the strictly UTF-8-decoded,
\* whitespace-trimmed reading with at most one leading v or V removed,
\* non-empty, not longer than the maximal version length and of the version
\* format; a reading that fails any check is never returned.
C27_CharacteristicValueValidated ==
    LET f == task["reader"] IN
    (Returned(f) /\ BleOps(f, "read") # {}) =>
        \A i \in BleOps(f, "read") :
            LET read == f.ble[i].result IN
            IF BleOps(f, "service_info") = {}
            THEN /\ read.kind = "value"
                 /\ ValidReading(read.value)
                 /\ f.ret = Str(Unprefixed(strip(decode_utf8(read.value.body))))
                 /\ f.ret.v # <<>>
                 /\ Len(f.ret.v) <= MAX_VERSION_LENGTH
                 /\ VERSION_VALIDATION_PATTERN(f.ret.v)
            ELSE ~(read.kind = "value" /\ ValidReading(read.value))

\* A call that has returned the reading " \tV4.5\n" as 4.5.
C27_Witness ==
    LET f == task["reader"] IN
    /\ Returned(f)
    /\ BleOps(f, "service_info") = {}
    /\ \E i \in BleOps(f, "read") :
          /\ f.ble[i].result.kind = "value"
          /\ f.ble[i].result.value # None
          /\ f.ble[i].result.value.len = Len(V_same) + 4
    /\ f.ret = Str(V_same)

\* C28: if no connectable handle resolves, get_current_version returns None
\* without opening a connection and without consulting advertisement data,
\* even when a well-formed advertisement version is available.
C28_NoHandleNoFallback ==
    LET f == task["reader"] IN
    (f.pc = "done" /\ \E i \in BleOps(f, "resolve") : ~f.ble[i].ok) =>
        /\ f.raised = ""
        /\ f.ret = None
        /\ BleOps(f, "connect") = {}
        /\ BleOps(f, "service_info") = {}

\* A call without a handle while the advertisement gives a version.
C28_Witness ==
    LET f == task["reader"] IN
    /\ Returned(f)
    /\ \E i \in BleOps(f, "resolve") : ~f.ble[i].ok
    /\ advertisement_version(f.args.last_service_info) # None

----------------------------------------------------------------------------
(* The apply_firmware service (__init__.py 157-271) in the runs of Spec.   *)

\* The service's call has passed the registry lookups and
\* get_current_version has returned to it.
VersionStageOver(f) ==
    /\ f.pc \notin {"idle", "version_connect", "version_read", "version_disconnect"}
    /\ BleOps(f, "resolve") # {}

\* The device has a Bluetooth connection with an address.
HasBluetoothAddress(device) ==
    \E i \in 1..Len(device.connections) :
        /\ device.connections[i][1] = CONNECTION_BLUETOOTH
        /\ device.connections[i][2] # <<>>

\* The configured source of the device's entry of the integration.
SourcesOf(device) ==
    {device.config_entries[i].firmware_source :
        i \in {j \in 1..Len(device.config_entries) :
                  /\ device.config_entries[j] # None
                  /\ device.config_entries[j].domain = INTEGRATION_DOMAIN}}

\* C29: in the apply_firmware service, when the current version is known
\* and equals the desired version under the Version Comparator, the call
\* returns successfully without any release lookup, download or flash; when
\* the current version cannot be determined, the call proceeds to resolve
\* and apply.
C29_SkipWhenVersionsEqual ==
    LET f == task["service"] IN
    VersionStageOver(f) =>
        /\ (Truthy(f.current_version)
            /\ _versions_equal(f.current_version, f.args.desired_version))
           => /\ f.pc = "done" /\ f.raised = ""
              /\ f.api_requests = 0
              /\ f.http_requests = 0
              /\ f.flash_calls = 0
              /\ BleOps(f, "write") = {}
        /\ (~Truthy(f.current_version)
            /\ SourcesOf(f.args.device) \subseteq FIRMWARE_SOURCES)
           => /\ f.api_requests = 1
              /\ f.raised # "" => f.raised \in {E_NOT_FOUND, E_DOWNLOAD,
                                                E_CHECKSUM, E_FLASH}

\* A call for v4.5 on a device that reports 4.5 has returned.
C29_Witness ==
    LET f == task["service"] IN
    /\ f.pc = "done"
    /\ f.raised = ""
    /\ f.args.desired_version = Str(V_tag)
    /\ f.current_version = Str(V_same)
    /\ f.api_requests = 0

\* C30: the apply_firmware service reports each failure reason (device not
\* found, no Bluetooth address, no config entry, invalid source, version
\* not found upstream) by raising before any download or BLE flash;
\* download and flash happen only after all checks have passed and a
\* release was resolved.
C30_FailuresBeforeSideEffects ==
    LET f == task["service"]
        device == f.args.device
        known == device # None
        addressed == known /\ HasBluetoothAddress(device)
        configured == addressed /\ SourcesOf(device) # {}
    IN
    f.pc # "idle" =>
        /\ ~known => f.pc = "done" /\ f.raised = E_NO_DEVICE
        /\ (known /\ ~addressed) => f.pc = "done" /\ f.raised = E_NO_MAC
        /\ (addressed /\ ~configured) => f.pc = "done" /\ f.raised = E_NO_ENTRY
        /\ (/\ configured
            /\ VersionStageOver(f)
            /\ ~(SourcesOf(device) \subseteq FIRMWARE_SOURCES)
            /\ ~(Truthy(f.current_version)
                 /\ _versions_equal(f.current_version, f.args.desired_version)))
           => f.pc = "done" /\ f.raised = E_SOURCE
        /\ (f.pc = "done" /\ f.api_requests > 0 /\ f.release = None)
           => f.raised = E_NOT_FOUND
        /\ f.raised \in {E_NO_DEVICE, E_NO_MAC, E_NO_ENTRY, E_SOURCE, E_NOT_FOUND}
           => /\ f.http_requests = 0
              /\ f.flash_calls = 0
              /\ BleOps(f, "write") = {}
        /\ (f.http_requests > 0 \/ f.flash_calls > 0)
           => /\ configured
              /\ SourcesOf(device) \subseteq FIRMWARE_SOURCES
              /\ VersionStageOver(f)
              /\ f.api_requests = 1
              /\ f.release # None

\* A call for a device whose entry names an unknown source has raised
\* after the version read.
C30_Witness ==
    LET f == task["service"] IN
    /\ f.pc = "done"
    /\ f.raised = E_SOURCE
    /\ f.current_version = Str(V_other)
    /\ f.http_requests = 0

----------------------------------------------------------------------------
(* Direct calls of _versions_equal (__init__.py 41-78).                    *)

\* The version texts compared: every text of up to MaxVersionChars
\* characters over a prefix letter in both cases, two digits, the dot and
\* a letter that no version holds, and longer texts with prefixes, patch
\* numbers and trailing zeros.
VersionChars == {"v", "V", "1", "0", ".", "x"}
MaxVersionChars == 2
VersionTexts ==
    UNION {[1..n -> VersionChars] : n \in 0..MaxVersionChars}
    \cup {<<"v", "1", ".", "0">>, <<"1", ".", "0", ".", "0">>,
          <<"V", "1", ".", "0">>, <<"v", "v", "1", ".", "0">>,
          <<"v", "V", "1", ".", "0">>, <<"1", ".", "0", "1">>,
          <<"1", ".", "1", "0">>, <<"0", "1", ".", "0">>,
          <<"v", "v", "x">>, <<"v", "V", "x">>, <<"V", "v", "x">>,
          <<"1", ".", "0", "x">>, <<"v", "1", ".", "0", "x">>,
          <<"1", ".", "0", ".">>, <<"1", ".", ".", "0">>}

\* A call of _versions_equal; the comparison does not await.
CallCompare(p) ==
    /\ p = "comparator"
    /\ task[p].pc = "idle"
    /\ \E version1 \in VersionTexts, version2 \in VersionTexts :
          Step(p, [IdleTask EXCEPT
                      !.pc = "done",
                      !.args = [version1 |-> Str(version1),
                                version2 |-> Str(version2)],
                      !.ret = Bool(_versions_equal(Str(version1), Str(version2)))])

NextCompare ==
    \E p \in {"comparator"} :
        \/ CallCompare(p)
        \/ TaskDone(p)

SpecCompare == Init /\ [][NextCompare]_vars

\* C31: the version comparator is symmetric, equal(a, b) = equal(b, a) for
\* all inputs, and treats versions that differ only by a leading v prefix
\* or by trailing zero components as equal, so that equal("v1.0", "1.0.0")
\* holds.
C31_ComparatorSymmetric ==
    LET f == task["comparator"] IN
    f.pc = "done" =>
        LET a == f.args.version1.v
            b == f.args.version2.v
        IN  /\ f.raised = ""
            /\ f.ret = Bool(_versions_equal(f.args.version2, f.args.version1))
            /\ a = <<"v">> \o b => f.ret = Bool(TRUE)
            /\ (a = b \o <<".", "0">> /\ version_parse(b) # InvalidVersion)
               => f.ret = Bool(TRUE)
            /\ (a = <<"v", "1", ".", "0">> /\ b = <<"1", ".", "0", ".", "0">>)
               => f.ret = Bool(TRUE)

\* The call equal("v1.0", "1.0.0") has returned true.
C31_Witness ==
    LET f == task["comparator"] IN
    /\ f.pc = "done"
    /\ f.args.version1 = Str(<<"v", "1", ".", "0">>)
    /\ f.args.version2 = Str(<<"1", ".", "0", ".", "0">>)
    /\ f.ret = Bool(TRUE)

\* The text without one leading v or V.
StripOnePrefix(s) == IF s # <<>> /\ Head(s) \in {"v", "V"} THEN Tail(s) ELSE s

\* C32: the version comparator strips exactly one leading v or V from each
\* input before comparing; when either input is not parseable as a
\* semantic version the result is the case-sensitive string equality of
\* the two prefix-stripped forms; the comparator never raises.
C32_SingleStripThenStringFallback ==
    LET f == task["comparator"] IN
    f.pc = "done" =>
        LET a == StripOnePrefix(f.args.version1.v)
            b == StripOnePrefix(f.args.version2.v)
        IN  /\ f.raised = ""
            /\ IF version_parse(a) = InvalidVersion
                  \/ version_parse(b) = InvalidVersion
               THEN f.ret = Bool(a = b)
               ELSE f.ret = Bool(version_parse(a) = version_parse(b))

----------------------------------------------------------------------------
(* normalize_mac (const.py 70-105).                                        *)

E_MAC_LENGTH == "ValueError: Invalid MAC address length"
E_MAC_HEX == "ValueError: Invalid MAC address (non-hex characters)"

\* str.replace(sep, "") for the three separators.
RECURSIVE remove_separators(_)
remove_separators(s) ==
    IF s = <<>> THEN <<>>
    ELSE IF Head(s) \in {":", "-", "."} THEN remove_separators(Tail(s))
    ELSE <<Head(s)>> \o remove_separators(Tail(s))

\* int(s, 16) does not raise: surrounding whitespace, a sign and the base
\* prefix 0x are accepted, and so is one underscore after the prefix and
\* between two digits.
int_base16_accepts(s) ==
    LET t == strip(s)
        u == IF t # <<>> /\ Head(t) \in {"+", "-"} THEN Tail(t) ELSE t
        prefixed == Len(u) >= 2 /\ u[1] = "0" /\ u[2] \in {"x", "X"}
        w == IF ~prefixed THEN u
             ELSE IF Len(u) >= 3 /\ u[3] = "_" THEN SubSeq(u, 4, Len(u))
             ELSE SubSeq(u, 3, Len(u))
    IN  /\ w # <<>>
        /\ IsHexChar(w[1])
        /\ IsHexChar(w[Len(w)])
        /\ \A i \in 1..Len(w) : IsHexChar(w[i]) \/ w[i] = "_"
        /\ \A i \in 1..(Len(w) - 1) : ~(w[i] = "_" /\ w[i + 1] = "_")

\* normalize_mac: the normalized address, or the ValueError raised.
normalize_mac(mac) ==
    LET mac_clean == str_upper(remove_separators(mac)) IN
    IF Len(mac_clean) # 12 THEN [t |-> "raise", message |-> E_MAC_LENGTH]
    ELSE IF ~int_base16_accepts(mac_clean)
    THEN [t |-> "raise", message |-> E_MAC_HEX]
    ELSE Str(SubSeq(mac_clean, 1, 2) \o <<":">> \o SubSeq(mac_clean, 3, 4)
             \o <<":">> \o SubSeq(mac_clean, 5, 6) \o <<":">>
             \o SubSeq(mac_clean, 7, 8) \o <<":">> \o SubSeq(mac_clean, 9, 10)
             \o <<":">> \o SubSeq(mac_clean, 11, 12))

\* The addresses passed: every text of up to MaxMacChars characters over
\* hexadecimal digits in both cases, a letter that is no digit, the
\* separators and the characters int() gives a meaning, and spellings of
\* whole addresses: with each separator and without, in mixed case,
\* too short, too long, with letters that are no digits, with a base
\* prefix, underscores, surrounding blanks and a sign.
MacChars == {"a", "F", "0", "g", ":", "-", ".", "x", "_", " ", "+"}
MaxMacChars == 2
Pairs(sep) ==
    <<"a", "a">> \o sep \o <<"b", "B">> \o sep \o <<"C", "c">> \o sep
    \o <<"D", "D">> \o sep \o <<"0", "e">> \o sep \o <<"f", "9">>
MacInputs ==
    UNION {[1..n -> MacChars] : n \in 0..MaxMacChars}
    \cup {Pairs(sep) : sep \in {<<>>, <<":">>, <<"-">>, <<".">>, <<":", "-">>}}
    \cup {str_upper(Pairs(<<":">>)), str_lower(Pairs(<<"-">>)),
          SubSeq(Pairs(<<":">>), 1, 14), Pairs(<<":">>) \o <<":", "0", "0">>,
          <<"g", "g">> \o SubSeq(Pairs(<<>>), 3, 12),
          SubSeq(Pairs(<<>>), 1, 10) \o <<"z", "z">>,
          <<"0", "x">> \o SubSeq(Pairs(<<>>), 3, 12),
          <<"0", "x", "_">> \o SubSeq(Pairs(<<>>), 4, 12),
          <<"0", "x", "0", "x">> \o SubSeq(Pairs(<<>>), 5, 12),
          <<"a", "_", "b", "_", "c", "_", "d", "_", "e", "_", "f", "a">>,
          <<"_", "_">> \o SubSeq(Pairs(<<>>), 3, 12),
          <<" ">> \o SubSeq(Pairs(<<>>), 1, 10) \o <<" ">>,
          <<"+">> \o SubSeq(Pairs(<<>>), 1, 11)}

\* A call of normalize_mac; it does not await.
CallNormalize(p) ==
    /\ p = "normalizer"
    /\ task[p].pc = "idle"
    /\ \E mac \in MacInputs :
          LET result == normalize_mac(mac)
              f == [IdleTask EXCEPT !.pc = "done", !.args = [mac |-> Str(mac)]]
          IN  Step(p, IF result.t = "raise"
                      THEN [f EXCEPT !.raised = result.message]
                      ELSE [f EXCEPT !.ret = result])

NextNormalize ==
    \E p \in {"normalizer"} :
        \/ CallNormalize(p)
        \/ TaskDone(p)

SpecNormalize == Init /\ [][NextNormalize]_vars

\* Twelve hexadecimal digits.
TwelveHex(s) == Len(s) = 12 /\ \A i \in 1..12 : IsHexChar(s[i])

\* Six groups of two upper-case hexadecimal digits, separated by colons.
Normalized(s) ==
    /\ Len(s) = 17
    /\ \A i \in 1..17 :
          IF i % 3 = 0 THEN s[i] = ":"
          ELSE IsHexChar(s[i]) /\ str_upper(<<s[i]>>) = <<s[i]>>

\* C33: for every input string, normalize_mac either raises ValueError or
\* returns a 17-character string of six two-character upper-case
\* hexadecimal groups separated by colons; every input whose
\* separator-stripped form is not exactly 12 hexadecimal digits raises,
\* and all colon, dash, dot and no-separator spellings of the same 12
\* digits in any letter case give the same output.
C33_NormalizedOrRaises ==
    LET f == task["normalizer"] IN
    f.pc = "done" =>
        LET digits == remove_separators(f.args.mac.v) IN
        IF TwelveHex(digits)
        THEN /\ f.raised = ""
             /\ f.ret.t = "str"
             /\ Normalized(f.ret.v)
             /\ remove_separators(f.ret.v) = str_upper(digits)
        ELSE f.raised \in {E_MAC_LENGTH, E_MAC_HEX}

----------------------------------------------------------------------------
(* The update entity's install progress (update.py 224-306) in the runs    *)
(* of Spec.                                                                 *)

\* ATCMiThermometerUpdate.in_progress, update.py 224-229.
in_progress(_install_progress) ==
    IF _install_progress > 0
    THEN [t |-> "int", v |-> _install_progress]
    ELSE Bool(FALSE)

\* C34: after any async_install run of the update entity has ended, by
\* success, by download failure or by flash failure, the entity's install
\* progress is 0 and in_progress reports false; while the run is between
\* download start and its end the progress is an integer in 1..100.
C34_ProgressResetAfterInstall ==
    LET f == task["install"] IN
    IF f.pc \in {"idle", "done"}
    THEN /\ install_progress = 0
         /\ in_progress(install_progress) = Bool(FALSE)
    ELSE /\ install_progress \in 1..100
         /\ in_progress(install_progress) = [t |-> "int", v |-> install_progress]

\* An install has ended by a flash failure after chunks had been written.
C34_Witness ==
    LET f == task["install"] IN
    /\ f.pc = "done"
    /\ f.raised = E_FLASH
    /\ f.progress # <<>>
    /\ install_progress = 0

----------------------------------------------------------------------------
(* The update coordinator's poll (update.py 99-125) in the runs of          *)
(* SpecBle.                                                                 *)

\* The poll's await of get_latest_release gave no release, or raised.
NoReleaseOrError(f) ==
    \E i \in 1..Len(f.api_log) :
        \/ f.api_log[i].kind = "raised"
        \/ f.api_log[i].kind = "returned" /\ f.api_log[i].value = None

----------------------------------------------------------------------------
(* The order of the commands of one flash_firmware call (firmware.py        *)
(* 265-304) in the runs of SpecFlash.                                       *)

\* The positions in the BLE log of frame f of the writes to the control
\* characteristic with command byte c, and of the writes of data chunks.
CommandWrites(f, c) ==
    {i \in 1..Len(f.ble) : /\ f.ble[i].op = "write"
                           /\ f.ble[i].char = "OTA_CONTROL"
                           /\ f.ble[i].data = c}
ChunkWrites(f) ==
    {i \in 1..Len(f.ble) : f.ble[i].op = "write" /\ f.ble[i].char = "OTA_DATA"}

\* The client of the call of frame f was entered, and was connected.
ClientEntered(f) ==
    \E i \in 1..Len(f.ble) :
        /\ f.ble[i].op = "connect"
        /\ f.ble[i].result \in {"connected", "not_connected"}
ClientConnected(f) ==
    \E i \in 1..Len(f.ble) :
        f.ble[i].op = "connect" /\ f.ble[i].result = "connected"

\* C36: in every flash that reaches a connected client the OTA start
\* command is attempted exactly once and before the first data chunk, the
\* finalize command is attempted at most once and only after the last data
\* chunk was written, and only data-channel writes occur between the two;
\* the connection is closed on every path on which flash returns.
C36_CommandOrder ==
    LET f == task["flasher"]
        Starts == CommandWrites(f, 1)
        Finals == CommandWrites(f, 2)
        Chunks == ChunkWrites(f)
    IN  /\ Cardinality(Starts) <= 1
        /\ Cardinality(Finals) <= 1
        /\ (ClientConnected(f) /\ f.pc # "flash_start") => Cardinality(Starts) = 1
        /\ ~ClientConnected(f) => Starts \cup Finals \cup Chunks = {}
        /\ \A s \in Starts : \A d \in Chunks : s < d
        /\ \A z \in Finals :
              /\ \A d \in Chunks : d < z /\ f.ble[d].result = "ok"
              /\ Cardinality(Chunks) = NumChunks(f.firmware_data.len)
              /\ \A s \in Starts : \A k \in (s + 1)..(z - 1) : k \in Chunks
              /\ \A k \in (z + 1)..Len(f.ble) : f.ble[k].op = "disconnect"
        /\ f.conn = "connected" => InFlashSession("flasher")
        /\ (f.pc = "done" /\ ClientEntered(f)) =>
              /\ f.conn = "closed"
              /\ f.ble[Len(f.ble)].op = "disconnect"

\* A flash of five chunks has returned after both commands and the close
\* of the connection.
C36_Witness ==
    LET f == task["flasher"] IN
    /\ f.pc = "done"
    /\ f.conn = "closed"
    /\ Cardinality(CommandWrites(f, 1)) = 1
    /\ Cardinality(CommandWrites(f, 2)) = 1
    /\ Cardinality(ChunkWrites(f)) = 5

----------------------------------------------------------------------------
(* Repeated calls of flash_firmware on one FirmwareManager (firmware.py     *)
(* 240-304): a call that returned False is followed by another call with    *)
(* the same payload, in a frame that still holds what the failed call left. *)

MaxFlashCalls == 3

\* The data chunks the call of frame f has written.
ChunksWritten(f) ==
    Cardinality({i \in ChunkWrites(f) : f.ble[i].result = "ok"})

CallFlashAgain(p) ==
    /\ p = "flasher"
    /\ task[p].pc = "done"
    /\ task[p].ret = Bool(FALSE)
    /\ task[p].flash_calls < MaxFlashCalls
    /\ \E found \in BOOLEAN :
          Step(p, flash_firmware_call(
                      p,
                      [IdleTask EXCEPT
                           !.args = [firmware_data |-> task[p].args.firmware_data,
                                     progress_callback |->
                                         task[p].args.progress_callback,
                                     previous |-> ChunksWritten(task[p])],
                           !.firmware_data = task[p].args.firmware_data,
                           !.flash_calls = task[p].flash_calls,
                           !.cursor = task[p].cursor],
                      found))

NextReflash ==
    \E p \in {"flasher"} :
        \/ CallFlash(p)
        \/ CallFlashAgain(p)
        \/ FlashConnected(p)
        \/ FlashStarted(p)
        \/ FlashChunk(p)
        \/ FlashFinalized(p)
        \/ FlashDisconnected(p)
        \/ TaskDone(p)

SpecReflash == Init /\ [][NextReflash]_vars

\* The call of frame f follows a failed call with the same payload.
FollowsFailedFlash(f) ==
    f.flash_calls > 1

\* C37: no transfer state survives a flash call: a flash that follows a
\* failed flash of the same payload starts again at chunk zero, its first
\* data write being the first 244 bytes of the payload and its progress
\* starting at 1, whatever number of chunks the failed call had written.
C37_FlashRestartsAtZero ==
    LET f == task["flasher"]
        writes == DataWrites("flasher")
        n == f.firmware_data.len
    IN  FollowsFailedFlash(f) =>
            /\ f.pc = "flash_chunk" /\ writes = <<>> => f.cursor = 0
            /\ writes # <<>> =>
                   /\ writes[1].off = 0
                   /\ writes[1].len = IF n < CHUNK_SIZE THEN n ELSE CHUNK_SIZE
                   /\ writes[1].body = f.args.firmware_data.body
            /\ f.progress # <<>> => f.progress[1].current = 1
            /\ \A i \in 1..Len(f.progress) : f.progress[i].current = i

\* A flash that follows a call which failed after three chunks has written
\* its first chunk and reported it.
C37_Witness ==
    LET f == task["flasher"]
        writes == DataWrites("flasher")
    IN  /\ FollowsFailedFlash(f)
        /\ f.args.previous = 3
        /\ writes # <<>>
        /\ writes[1].off = 0
        /\ writes[1].len = CHUNK_SIZE
        /\ Len(f.progress) = 1
        /\ f.progress[1].current = 1

----------------------------------------------------------------------------
(* Setups and unloads of the integration's config entries (__init__.py      *)
(* 81-152, 274-306), as Home Assistant's config-entry manager runs them.    *)

\* __init__.py 36.
SERVICE_APPLY_FIRMWARE == "apply_firmware"

\* hass.services.has_service(DOMAIN, SERVICE_APPLY_FIRMWARE).
has_service(h) ==
    \E s \in h.services : s.service = SERVICE_APPLY_FIRMWARE

\* hass.config_entries.async_entries(DOMAIN): every config entry of the
\* domain the manager holds, whatever its state.
async_entries(h) ==
    {e \in EntryIds : h.entries[e] # "absent"}

\* The config entries that are set up: those whose setup has succeeded
\* and whose platforms have not been unloaded since.
SetUpEntries(h) ==
    {e \in EntryIds : h.entries[e] \in {"loaded", "failed_unload"}}

\* async_setup_entry, lines 81-152: the entry's data are stored, and the
\* service is registered, with a handler made in this call, unless it is
\* registered already.
async_setup_entry(h, entry) ==
    LET stored == [h EXCEPT !.data = @ \cup {entry}] IN
    IF ~has_service(stored)
    THEN [stored EXCEPT !.services =
             @ \cup {[service |-> SERVICE_APPLY_FIRMWARE,
                      registered_by |-> entry]}]
    ELSE stored

\* async_unload_entry, lines 274-306: after the platforms were unloaded the
\* entry's data are dropped, and the service is removed when the manager
\* holds no entry of the domain.
async_unload_entry(h, entry, unload_ok) ==
    IF unload_ok
    THEN LET popped == [h EXCEPT !.data = @ \ {entry}] IN
         IF async_entries(popped) = {} /\ has_service(popped)
         THEN [popped EXCEPT !.services =
                  {s \in @ : s.service # SERVICE_APPLY_FIRMWARE}]
         ELSE popped
    ELSE h

\* A config flow has created an entry.
AddEntry(e) ==
    /\ hass.entries[e] = "absent"
    /\ hass' = [hass EXCEPT !.entries[e] = "not_loaded"]
    /\ UNCHANGED <<task, coordinator_data, sensor_data, install_progress>>

\* The manager sets an entry up: async_setup_entry returns True.
SetupEntry(e) ==
    /\ hass.entries[e] = "not_loaded"
    /\ hass' = [async_setup_entry(hass, e) EXCEPT !.entries[e] = "loaded"]
    /\ UNCHANGED <<task, coordinator_data, sensor_data, install_progress>>

\* The manager unloads an entry, for a reload, for its disabling or before
\* its removal; the entry stays in the manager's store.
UnloadEntry(e) ==
    /\ hass.entries[e] = "loaded"
    /\ \E unload_ok \in BOOLEAN :
          hass' = [async_unload_entry(hass, e, unload_ok) EXCEPT
                       !.entries[e] = IF unload_ok THEN "not_loaded"
                                      ELSE "failed_unload"]
    /\ UNCHANGED <<task, coordinator_data, sensor_data, install_progress>>

\* The manager deletes an entry it has unloaded.
RemoveEntry(e) ==
    /\ hass.entries[e] \in {"not_loaded", "failed_unload"}
    /\ hass' = [hass EXCEPT !.entries[e] = "absent"]
    /\ UNCHANGED <<task, coordinator_data, sensor_data, install_progress>>

NextEntries ==
    \E e \in EntryIds :
        \/ AddEntry(e)
        \/ SetupEntry(e)
        \/ UnloadEntry(e)
        \/ RemoveEntry(e)

SpecEntries == Init /\ [][NextEntries]_vars

\* C38: after any sequence of config-entry setups and unloads the
\* apply_firmware service is registered if and only if at least one config
\* entry of the integration is set up: setup registers it only when it is
\* not yet registered, an unload that leaves other entries keeps it, and the
\* unload of the last entry removes it.
C38_ServiceIffEntrySetUp ==
    /\ has_service(hass) <=> SetUpEntries(hass) # {}
    /\ Cardinality(hass.services) <= 1

====
